---- MODULE Spec2Model ----
(***************************************************************************)
(* zconvo.lv2: the engine facade of src/src/lv2.cc (hot-swap protocol of   *)
(* clv_online / clv_offline between the audio thread, the host's worker    *)
(* thread and a concurrent restore call) and the partition level of        *)
(* src/src/audiosrc.h (Convlevel readout against the level thread).        *)
(*                                                                         *)
(* work_response takes no lock in the source, so its accesses to the two   *)
(* engine pointers are modelled one source statement at a time; the        *)
(* sections of load_ir_worker and of CMD_FREE that run under state_lock    *)
(* are modelled one statement at a time as well, because the audio thread  *)
(* can read and write the pointers in the middle of them.                  *)
(***************************************************************************)
EXTENDS Integers, Sequences, FiniteSets, TLC

\* ---- bounds ----
MaxReq     == 3   \* load requests the host makes (patch:Set messages and restore calls)
MaxRestore == 1   \* restore () calls among them

\* ---- program constants ----
NULL      == 0    \* empty engine pointer
CMD_APPLY == 0
CMD_FREE  == 1

EmptyPath == 0    \* std::string that is empty ()

LvShift  == 1     \* the threaded level's partition size is 2^LvShift * minpart
LvNpar   == 2     \* partitions of the threaded level
LateMax  == 5     \* late cycles after which Convproc::process stops the engine
OPT_LATE_CONTIN == FALSE  \* Convolver::reconfigure calls set_options (0)

LV2_WORKER_SUCCESS     == 0
LV2_WORKER_ERR_UNKNOWN == 1

\* ir paths: the k-th control-port request carries path 2k, the k-th
\* restore call path 2k-1, so that every request names its own file
CtlPath(k)     == 2 * k
RestorePath(k) == 2 * k - 1
FromCtl(p)     == p # EmptyPath /\ p % 2 = 0

MaxEng  == MaxReq
Engines == 1 .. MaxEng

Threads == {"worker", "restore"}

VARIABLES
  clv_online,        \* currently active engine (pointer)
  clv_offline,       \* inactive engine being configured (pointer)
  pset_dirty,
  state_lock,        \* "none" or the thread that holds the mutex
  next_queued_file,
  workq,             \* requests handed to schedule_work, not yet taken by work ()
  respq,             \* responses sent by respond (), not yet delivered
  eng_st,            \* per engine: "none", "building", "ready", "unready", "deleted"
  eng_path,          \* per engine: Convolver::_path
  n_eng,             \* engines constructed so far
  pc,                \* per non-RT thread: position in work () / restore ()
  ir_path,           \* per thread: argument of load_ir_worker while the call lasts
  ok,                \* per thread: out-parameter of load_ir_worker
  ret,               \* per thread: status of the current call (success until it fails)
  from_queue,        \* worker: load_ir_worker was entered from CMD_FREE
  a_pc,              \* audio thread: position in work_response
  a_old,             \* audio thread: local 'old' of work_response
  crashed,           \* the process dereferenced NULL or freed memory and died
  n_ctl, n_restore,  \* requests made so far
  last_req,          \* path of the most recent load request
  built,             \* paths for which load_ir_worker ran the constructor
  any_fail,          \* some construction failed
  free_done,         \* the worker has completed a CMD_FREE
  in_cycle,          \* every request so far was made before the first CMD_FREE completed
  on0,               \* per thread: clv_online when the build in progress took the lock
  swap_log,          \* last inform_ui of a swap: engine put online, mark_dirty
  \* one Convproc with one threaded Convlevel (partition size > quantum)
  cp_state,          \* Convproc::_state
  cp_latecnt,        \* Convproc::_latecnt
  lv_stat,           \* Convlevel::_stat
  lv_wait,           \* Convlevel::_wait
  lv_outoffs,        \* Convlevel::_outoffs, in units of _outsize
  lv_opind,          \* Convlevel::_opind
  lv_ptind,          \* Convlevel::_ptind
  sem_trig,          \* Convlevel::_trig
  sem_done,          \* Convlevel::_done
  lv_pc,             \* level thread: position in Convlevel::main
  au_pc,             \* audio thread: position in Convproc::process / Convlevel::readout
  cp_inpoffs,        \* Convproc::_inpoffs, in units of the quantum
  lv_inpoffs,        \* Convlevel::_inpoffs, in units of the quantum
  lv_window,         \* ring positions the cycle triggered last reads in Convlevel::process
  lv_written,        \* ring positions the audio thread has written since that trig
  lv_trigs,          \* cycles triggered by readout since the start, modulo _npar
  lv_blocked,        \* the last readout found the previous cycle's done not yet posted
  late_run,          \* consecutive readout cycles that found the worker late, up to LateMax
  lv_ret,            \* value the last readout returned
  lv_sub,            \* the last process call came after LateMax consecutive late cycles
  lv_outkind,        \* what the last process call left in the output: "none", "signal", "stale"
  \* state save / restore of one instance
  bag,               \* the host's key -> value store handed to save and restore
  r_irs,             \* restore: local IRSettings irs
  s_eng,             \* path and settings of the engine built by the load, or NoEngine
  s_rv,              \* status returned by the last save / restore
  s_pc,              \* position in restore
  \* one plugin instance seen by the host: instantiate and the audio callbacks
  host_nominal,      \* option bufsz:nominalBlockLength, 0 when the host gives none
  host_max,          \* option bufsz:maxBlockLength, 0 when the host gives none
  descriptor,        \* URI suffix of the instantiated variant
  io_inst,           \* "new", "ok" (instantiate returned a handle) or "null"
  block_size,
  chn_in, chn_out,
  io_online,         \* clv_online # NULL as the audio callbacks see it
  buffered,
  db_dry, db_wet,
  dry_coeff, dry_target,
  output,            \* per output channel: the samples written by the last callback
  p_latency,         \* value of the latency port
  io_cb,             \* the last audio callback: entry point, branch taken, input
  \* one Convproc with all its levels: partition plan and lifecycle
  cv_args,           \* the arguments the owner hands to configure
  cv_state,          \* Convproc::_state
  cv_cfg,            \* _ninp, _nout, _quantum, _minpart, _maxpart, _inpsize
  cv_plan,           \* per level of _convlev: _prio, _offs, _npar, _parsize
  cv_stat,           \* per level: Convlevel::_stat
  cv_imp,            \* (inp, out) pairs that hold impulse data
  cv_thr,            \* per level: "none", "created", "running" or "exited" thread
  cv_pc,             \* control thread: "idle" or its position in restart_process
  cv_next,           \* restart_process: index k of the start loop
  cv_call,           \* the last call: operation, force flag, state it found
  cv_rv,             \* value the last call returned
  cv_orphans,        \* a thread created for a level that cleanup has deleted exists
  cv_uaf,            \* a thread has run Convlevel::main on a deleted level
  \* one Convolver::reconfigure: channel map and impulse load
  rc_in,             \* _irc, _readables, _ir_settings, block size and mode
  rc_pc,             \* "new" before reconfigure, "done" after it
  rc_rv,             \* rv of reconfigure
  rc_plan,           \* the levels Convproc::configure built
  rc_imp,            \* impdata_create calls, with the positions that were stored
  rc_tdc,            \* TimeDomainConvolver::configure calls
  rc_tab,            \* the four TimeDomainConvolvers: _enabled and _ir
  \* one configured Convproc with one level, as Convproc::reset sees it
  rs_eng,            \* buffers, offsets and the level's members
  rs_first,          \* the engine as the first reset call left it
  rs_n,              \* reset calls made so far
  \* one Convolver in the buffered mode, fed with blocks of any length
  bf_n,              \* Convolver::_n_samples
  bf_offset,         \* Convolver::_offset
  bf_procs,          \* calls of Convproc::process so far
  bf_total,          \* samples handed to run_buffered so far
  bf_calls,          \* run_buffered calls so far
  lv_wr,             \* output buffers the worker's process () is writing
  lv_tailop,         \* readtail's local opind
  ch_in,             \* chunked load: the plan, the IR length and the delay
  ch_pos,            \* the read loop's pos
  ch_slots,          \* the (level, partition, position, sample) writes so far
  ch_twice,          \* some sample was written a second time
  was_online,        \* engines work_response has put online so far
  dl_buf,            \* DelayLine::_buf, <<>> before the first reset
  dl_delay,          \* DelayLine::_delay
  dl_pos,            \* DelayLine::_pos
  dl_written,        \* DelayLine::_written
  dl_hist,           \* samples run has taken since the last reset or clear
  dl_stamp,          \* samples run has taken in all; the next sample's value
  dl_out,            \* what the last run call wrote back to its buffer
  dl_exp             \* the inputs of _delay samples earlier, zero before the last reset or clear

facade_vars == <<clv_online, clv_offline, pset_dirty, state_lock, next_queued_file,
                 workq, respq, eng_st, eng_path, n_eng, pc, ir_path, ok, ret,
                 from_queue, a_pc, a_old, crashed, n_ctl, n_restore, last_req,
                 built, any_fail, free_done, in_cycle, on0, swap_log>>

hist_vars == <<cp_inpoffs, lv_inpoffs, lv_window, lv_written, lv_trigs, lv_blocked,
               late_run, lv_ret, lv_sub, lv_outkind>>

ring_vars == <<lv_wr, lv_tailop>>

level_vars == <<cp_state, cp_latecnt, lv_stat, lv_wait, lv_outoffs, lv_opind,
                lv_ptind, sem_trig, sem_done, lv_pc, au_pc, hist_vars, ring_vars>>

st_vars == <<bag, r_irs, s_eng, s_rv, s_pc>>

io_vars == <<host_nominal, host_max, descriptor, io_inst, block_size, chn_in,
             chn_out, io_online, buffered, db_dry, db_wet, dry_coeff, dry_target,
             output, p_latency, io_cb>>

cv_hist == <<cv_orphans, cv_uaf>>

cv_vars == <<cv_args, cv_state, cv_cfg, cv_plan, cv_stat, cv_imp, cv_thr, cv_pc,
             cv_next, cv_call, cv_rv, cv_hist>>

rc_vars == <<rc_in, rc_pc, rc_rv, rc_plan, rc_imp, rc_tdc, rc_tab>>

rs_vars == <<rs_eng, rs_first, rs_n>>

bf_vars == <<bf_n, bf_offset, bf_procs, bf_total, bf_calls>>

ch_vars == <<ch_in, ch_pos, ch_slots, ch_twice>>

on_vars == <<was_online>>

dl_vars == <<dl_buf, dl_delay, dl_pos, dl_written, dl_hist, dl_stamp, dl_out, dl_exp>>

ext_vars == <<rs_vars, bf_vars, ch_vars, on_vars, dl_vars>>

base_vars == <<facade_vars, level_vars, st_vars, io_vars, cv_vars, rc_vars>>

rs_rest == <<bf_vars, ch_vars, on_vars, dl_vars>>
bf_rest == <<rs_vars, ch_vars, on_vars, dl_vars>>
ch_rest == <<rs_vars, bf_vars, on_vars, dl_vars>>
on_rest == <<rs_vars, bf_vars, ch_vars, dl_vars>>
dl_rest == <<rs_vars, bf_vars, ch_vars, on_vars>>

aux_vars == <<st_vars, io_vars, cv_vars, rc_vars, ext_vars>>

vars == <<facade_vars, level_vars, aux_vars>>

PathItem(p) == [kind |-> "path", data |-> p]
CmdItem(c)  == [kind |-> "cmd", data |-> c]

\* zeroConvolv after instantiate (): calloc'ed, pset_dirty = true
InitInstance ==
  /\ clv_online = NULL
  /\ clv_offline = NULL
  /\ pset_dirty = TRUE
  /\ state_lock = "none"
  /\ next_queued_file = EmptyPath
  /\ workq = <<>>
  /\ respq = 0
  /\ eng_st = [e \in Engines |-> "none"]
  /\ eng_path = [e \in Engines |-> EmptyPath]
  /\ n_eng = 0
  /\ pc = [t \in Threads |-> "idle"]
  /\ ir_path = [t \in Threads |-> EmptyPath]
  /\ ok = [t \in Threads |-> FALSE]
  /\ ret = [t \in Threads |-> LV2_WORKER_SUCCESS]
  /\ from_queue = FALSE
  /\ a_pc = "idle"
  /\ a_old = NULL
  /\ crashed = FALSE
  /\ n_ctl = 0
  /\ n_restore = 0
  /\ last_req = EmptyPath
  /\ built = <<>>
  /\ any_fail = FALSE
  /\ free_done = FALSE
  /\ in_cycle = TRUE
  /\ on0 = [t \in Threads |-> NULL]
  /\ swap_log = [eng |-> NULL, dirty |-> FALSE]
  /\ cp_state = "STOP"
  /\ cp_latecnt = 0
  /\ lv_stat = "IDLE"
  /\ lv_wait = 0
  /\ lv_outoffs = 0
  /\ lv_opind = 0
  /\ lv_ptind = 0
  /\ sem_trig = 0
  /\ sem_done = 0
  /\ lv_pc = "none"
  /\ au_pc = "idle"
  /\ cp_inpoffs = 0
  /\ lv_inpoffs = 0
  /\ lv_window = {}
  /\ lv_written = {}
  /\ lv_trigs = 0
  /\ lv_blocked = FALSE
  /\ late_run = 0
  /\ lv_ret = 0
  /\ lv_sub = FALSE
  /\ lv_outkind = "none"
  /\ lv_wr = {}
  /\ lv_tailop = 0

\* IRSettings::IRSettings (); artificial_latency is a member of the revision
\* of convolver.h that lv2.cc is written against
DefaultLatency == 0
DefaultIRSettings ==
  [gain |-> 1, pre_delay |-> 0, artificial_latency |-> DefaultLatency,
   channel_gain |-> <<1, 1, 1, 1>>, channel_delay |-> <<0, 0, 0, 0>>,
   sum_inputs |-> FALSE]

NoValue  == -1      \* retrieve () returned no usable scalar for the key
NoVector == <<>>    \* retrieve () returned no usable vector for the key
NoEngine == [path |-> NoValue, irs |-> DefaultIRSettings]

EmptyBag ==
  [ir |-> NoValue, gain |-> NoValue, predelay |-> NoValue, latency |-> NoValue,
   sum_ins |-> NoValue, chn_gain |-> NoVector, chn_delay |-> NoVector]

\* no state has been saved or restored yet
InitState ==
  /\ bag = EmptyBag
  /\ r_irs = DefaultIRSettings
  /\ s_eng = NoEngine
  /\ s_rv = "none"
  /\ s_pc = "idle"

CoefUnit == 2       \* the gain coefficient 1.0 on the integer grid of coefficients
DbMin    == -60     \* db_to_coeff: at or below this level the coefficient is 0
DbMax    == 6       \* db_to_coeff: above 6.02 dB the coefficient is 2.0

NoCallback == [fn |-> "none", online |-> FALSE, buffered |-> FALSE,
               fixed |-> FALSE, loud |-> FALSE]

\* instantiate, lines 314-320 (calloc zeroes the rest): a configurable Mono
\* instance with the smallest block length, before any audio callback
InitAudio ==
  /\ host_nominal = 0
  /\ host_max = 0
  /\ descriptor = "CfgMono"
  /\ io_inst = "ok"
  /\ block_size = 64
  /\ chn_in = 1
  /\ chn_out = 1
  /\ io_online = FALSE
  /\ buffered = TRUE
  /\ db_dry = DbMin
  /\ db_wet = 0
  /\ dry_coeff = 0
  /\ dry_target = 0
  /\ output = <<>>
  /\ p_latency = 0
  /\ io_cb = NoCallback

NoArgs == [ninp |-> 0, nout |-> 0, maxsize |-> 0, quantum |-> 0, minpart |-> 0,
           maxpart |-> 0, density |-> "default"]

\* Convproc::cleanup, lines 559-567, and the constructor, lines 213-221
ZeroCfg == [ninp |-> 0, nout |-> 0, quantum |-> 0, minpart |-> 0, maxpart |-> 0,
            inpsize |-> 0]

NoCall == [op |-> "none", force |-> FALSE, from |-> "IDLE", seq |-> 0]

\* Convproc::Convproc: nothing is configured
InitConv ==
  /\ cv_state = "IDLE"
  /\ cv_cfg = ZeroCfg
  /\ cv_plan = <<>>
  /\ cv_stat = <<>>
  /\ cv_imp = {}
  /\ cv_thr = <<>>
  /\ cv_pc = "idle"
  /\ cv_next = 0
  /\ cv_call = NoCall
  /\ cv_rv = 0
  /\ cv_orphans = FALSE
  /\ cv_uaf = FALSE

\* no Convolver has been asked to reconfigure
NoLoad == [irc |-> "Mono", n_chn |-> 0, len |-> 0, threaded |-> TRUE, block |-> 0,
           irs |-> DefaultIRSettings]

TdcTaps == 64    \* float _ir [64]

\* TimeDomainConvolver::reset, lines 80-84
\* _ir is kept as the run of samples stored in it: n samples of the IR, from
\* _ir [at] on, times gain; all other taps are zero
TdcReset == [enabled |-> FALSE, ir |-> [at |-> 0, n |-> 0, gain |-> 0]]

\* _ir [j]; the k-th sample of an IR channel is the non-zero stand-in k + 1
Tap(t, j) ==
  IF t.ir.at <= j /\ j < t.ir.at + t.ir.n THEN t.ir.gain * (j - t.ir.at + 1) ELSE 0

InitRc ==
  /\ rc_in = NoLoad
  /\ rc_pc = "new"
  /\ rc_rv = 0
  /\ rc_plan = <<>>
  /\ rc_imp = {}
  /\ rc_tdc = {}
  /\ rc_tab = [i \in 0 .. 3 |-> TdcReset]

\* an engine that has not been configured
NoConvproc ==
  [state |-> "IDLE", minpart |-> 0, inpsize |-> 0, inpoffs |-> 0, outoffs |-> 0,
   inpbuff |-> <<0, 0>>, outbuff |-> <<0, 0>>,
   lev |-> [parsize |-> 0, ffta |-> <<0, 0>>, buff |-> <<0, 0>>, outoffs |-> 0,
            inpoffs |-> 0, bits |-> 0, wait |-> 0, ptind |-> 0, opind |-> 0,
            trig |-> 0, done |-> 0]]

InitReset ==
  /\ rs_eng = NoConvproc
  /\ rs_first = NoConvproc
  /\ rs_n = 0

InitBuffered ==
  /\ bf_n = 0
  /\ bf_offset = 0
  /\ bf_procs = 0
  /\ bf_total = 0
  /\ bf_calls = 0

NoChunks == [plan |-> <<>>, len |-> 0, delay |-> 0]

InitChunks ==
  /\ ch_in = NoChunks
  /\ ch_pos = 0
  /\ ch_slots = {}
  /\ ch_twice = FALSE

InitSwaps == was_online = {}

\* DelayLine::DelayLine, lines 29-35
InitDelay ==
  /\ dl_buf = <<>>
  /\ dl_delay = 0
  /\ dl_pos = 0
  /\ dl_written = FALSE
  /\ dl_hist = <<>>
  /\ dl_stamp = 0
  /\ dl_out = <<>>
  /\ dl_exp = <<>>

InitExt == InitReset /\ InitBuffered /\ InitChunks /\ InitSwaps /\ InitDelay

\* everything but the parts a specification draws for itself
InitBase ==
  /\ InitInstance /\ InitState /\ InitAudio /\ InitConv /\ InitRc
  /\ cv_args = NoArgs

Init == InitInstance /\ InitState /\ InitAudio /\ InitConv /\ InitRc /\ InitExt /\ cv_args = NoArgs


\* ---------------------------------------------------------------------
\* helpers

\* a lock that never excludes anybody
LockFree_always == TRUE

\* pthread_mutex_lock (&self->state_lock) can return
LockFree == state_lock = "none"

\* where load_ir_worker returns to: work () returns to the host,
\* restore () goes on to line 788
ReturnPc(t) == IF t = "worker" THEN "idle" ELSE "rs_after"

\* delete p: the engine is destroyed; delete NULL is a no-op
Delete(st, p) == IF p = NULL THEN st ELSE [st EXCEPT ![p] = "deleted"]

\* p is dereferenced or deleted although it has been deleted already
Dangling(p) == p # NULL /\ eng_st[p] = "deleted"

\* the outcomes of touching p: the process dies on NULL, may die on freed memory
CrashOutcomes(p) == IF p = NULL THEN {TRUE} ELSE IF Dangling(p) THEN {TRUE, FALSE} ELSE {FALSE}

\* ---------------------------------------------------------------------
\* audio thread

\* run_cfg, LV2_ATOM_SEQUENCE_FOREACH: a patch:Set with a path is forwarded
\* to the worker scheduler
run_cfg ==
  /\ ~crashed
  /\ a_pc = "idle"
  /\ n_ctl + n_restore < MaxReq
  /\ n_ctl' = n_ctl + 1
  /\ workq' = Append(workq, PathItem(CtlPath(n_ctl + 1)))
  /\ last_req' = CtlPath(n_ctl + 1)
  /\ in_cycle' = (in_cycle /\ ~free_done)
  /\ UNCHANGED <<clv_online, clv_offline, pset_dirty, state_lock, next_queued_file,
                 respq, eng_st, eng_path, n_eng, pc, ir_path, ok, ret, from_queue,
                 a_pc, a_old, crashed, n_restore, built, any_fail, free_done, on0,
                 swap_log,
                 level_vars, aux_vars>>

\* run: reads clv_online without the lock and processes audio with it
run ==
  /\ ~crashed
  /\ a_pc = "idle"
  /\ crashed' \in (IF clv_online = NULL THEN {FALSE} ELSE CrashOutcomes(clv_online))
  /\ UNCHANGED <<clv_online, clv_offline, pset_dirty, state_lock, next_queued_file,
                 workq, respq, eng_st, eng_path, n_eng, pc, ir_path, ok, ret,
                 from_queue, a_pc, a_old, n_ctl, n_restore, last_req, built,
                 any_fail, free_done, in_cycle, on0, swap_log,
                 level_vars, aux_vars>>

\* work_response, line 495: if (!self->clv_offline)
wr_begin ==
  /\ ~crashed
  /\ a_pc = "idle"
  /\ respq > 0
  /\ respq' = respq - 1
  /\ a_pc' = IF clv_offline = NULL THEN "wr_queue" ELSE "wr_old"
  /\ UNCHANGED <<clv_online, clv_offline, pset_dirty, state_lock, next_queued_file,
                 workq, eng_st, eng_path, n_eng, pc, ir_path, ok, ret, from_queue,
                 a_old, crashed, n_ctl, n_restore, last_req, built, any_fail,
                 free_done, in_cycle, on0, swap_log,
                 level_vars, aux_vars>>

\* work_response, lines 500-504: a FREE is scheduled when a file is queued
wr_queue ==
  /\ ~crashed
  /\ a_pc = "wr_queue"
  /\ a_pc' = "idle"
  /\ workq' = IF next_queued_file # EmptyPath THEN Append(workq, CmdItem(CMD_FREE)) ELSE workq
  /\ UNCHANGED <<clv_online, clv_offline, pset_dirty, state_lock, next_queued_file,
                 respq, eng_st, eng_path, n_eng, pc, ir_path, ok, ret, from_queue,
                 a_old, crashed, n_ctl, n_restore, last_req, built, any_fail,
                 free_done, in_cycle, on0, swap_log,
                 level_vars, aux_vars>>

\* work_response, line 508: old = self->clv_online
wr_old ==
  /\ ~crashed
  /\ a_pc = "wr_old"
  /\ a_old' = clv_online
  /\ a_pc' = "wr_online"
  /\ UNCHANGED <<clv_online, clv_offline, pset_dirty, state_lock, next_queued_file,
                 workq, respq, eng_st, eng_path, n_eng, pc, ir_path, ok, ret,
                 from_queue, crashed, n_ctl, n_restore, last_req, built, any_fail,
                 free_done, in_cycle, on0, swap_log,
                 level_vars, aux_vars>>

\* work_response, line 510: self->clv_online = self->clv_offline
wr_online ==
  /\ ~crashed
  /\ a_pc = "wr_online"
  /\ clv_online' = clv_offline
  /\ was_online' = IF clv_offline # NULL THEN was_online \cup {clv_offline}
                                          ELSE was_online
  /\ a_pc' = "wr_offline"
  /\ UNCHANGED <<clv_offline, pset_dirty, state_lock, next_queued_file,
                 workq, respq, eng_st, eng_path, n_eng, pc, ir_path, ok, ret,
                 from_queue, a_old, crashed, n_ctl, n_restore, last_req, built,
                 any_fail, free_done, in_cycle, on0, swap_log,
                 level_vars, st_vars, io_vars, cv_vars, rc_vars, on_rest>>

\* work_response, line 511: self->clv_offline = old
wr_offline ==
  /\ ~crashed
  /\ a_pc = "wr_offline"
  /\ clv_offline' = a_old
  /\ a_pc' = "wr_gain"
  /\ UNCHANGED <<clv_online, pset_dirty, state_lock, next_queued_file,
                 workq, respq, eng_st, eng_path, n_eng, pc, ir_path, ok, ret,
                 from_queue, a_old, crashed, n_ctl, n_restore, last_req, built,
                 any_fail, free_done, in_cycle, on0, swap_log,
                 level_vars, aux_vars>>

\* work_response, lines 514-518: self->clv_online->set_output_gain (...),
\* inform_ui (self, self->pset_dirty)
wr_gain ==
  /\ ~crashed
  /\ a_pc = "wr_gain"
  /\ crashed' \in CrashOutcomes(clv_online)
  /\ swap_log' = [eng |-> clv_online, dirty |-> pset_dirty]
  /\ a_pc' = "wr_dirty"
  /\ UNCHANGED <<clv_online, clv_offline, pset_dirty, state_lock, next_queued_file,
                 workq, respq, eng_st, eng_path, n_eng, pc, ir_path, ok, ret,
                 from_queue, a_old, n_ctl, n_restore, last_req, built, any_fail,
                 free_done, in_cycle, on0,
                 level_vars, aux_vars>>

\* work_response, lines 520-524: pset_dirty = true, schedule CMD_FREE
wr_dirty ==
  /\ ~crashed
  /\ a_pc = "wr_dirty"
  /\ pset_dirty' = TRUE
  /\ workq' = Append(workq, CmdItem(CMD_FREE))
  /\ a_pc' = "idle"
  /\ a_old' = NULL
  /\ UNCHANGED <<clv_online, clv_offline, state_lock, next_queued_file,
                 respq, eng_st, eng_path, n_eng, pc, ir_path, ok, ret, from_queue,
                 crashed, n_ctl, n_restore, last_req, built, any_fail,
                 free_done, in_cycle, on0, swap_log,
                 level_vars, aux_vars>>

work_response == wr_begin \/ wr_queue \/ wr_old \/ wr_online \/ wr_offline \/ wr_gain \/ wr_dirty


\* ---------------------------------------------------------------------
\* load_ir_worker, run by the worker thread (from work) or by the thread
\* that calls restore

\* lines 534-542: lock; a busy offline slot queues the path and returns
lw_lock(t) ==
  /\ ~crashed
  /\ pc[t] = "lw_lock"
  /\ LockFree
  /\ ok' = [ok EXCEPT ![t] = FALSE]
  /\ IF clv_offline # NULL
       THEN /\ next_queued_file' = ir_path[t]
            /\ ret' = [ret EXCEPT ![t] = LV2_WORKER_SUCCESS]
            /\ pc' = [pc EXCEPT ![t] = ReturnPc(t)]
            /\ ir_path' = [ir_path EXCEPT ![t] = EmptyPath]
            /\ from_queue' = (from_queue /\ t # "worker")
            /\ UNCHANGED <<state_lock, on0>>
       ELSE /\ state_lock' = t
            /\ on0' = [on0 EXCEPT ![t] = clv_online]
            /\ pc' = [pc EXCEPT ![t] = "lw_new"]
            /\ UNCHANGED <<next_queued_file, ret, ir_path, from_queue>>
  /\ UNCHANGED <<clv_online, clv_offline, pset_dirty, workq, respq, eng_st, eng_path,
                 n_eng, a_pc, a_old, crashed, n_ctl, n_restore,
                 last_req, built, any_fail, free_done, in_cycle, swap_log,
                 level_vars, aux_vars>>

\* line 547: self->clv_offline = new Convolver (ir_path, ...); the constructor
\* throws when the file cannot be opened, is longer than 2^24 frames or has no
\* usable channel, and the handler of line 553 stores NULL
lw_new(t) ==
  /\ ~crashed
  /\ pc[t] = "lw_new"
  /\ built' = Append(built, ir_path[t])
  /\ \/ /\ clv_offline' = NULL
        /\ any_fail' = TRUE
        /\ pc' = [pc EXCEPT ![t] = "lw_unlock"]
        /\ UNCHANGED <<eng_st, eng_path, n_eng>>
     \/ /\ n_eng' = n_eng + 1
        /\ eng_st' = [eng_st EXCEPT ![n_eng + 1] = "building"]
        /\ eng_path' = [eng_path EXCEPT ![n_eng + 1] = ir_path[t]]
        /\ clv_offline' = n_eng + 1
        /\ pc' = [pc EXCEPT ![t] = "lw_reconf"]
        /\ UNCHANGED any_fail
  /\ UNCHANGED <<clv_online, pset_dirty, state_lock, next_queued_file, workq, respq,
                 ir_path, ok, ret, from_queue, a_pc, a_old, crashed, n_ctl,
                 n_restore, last_req, free_done, in_cycle, on0, swap_log,
                 level_vars, aux_vars>>

\* line 548: self->clv_offline->reconfigure (self->block_size); the engine
\* ends up configured and in ST_PROC, or not
lw_reconf(t) ==
  /\ ~crashed
  /\ pc[t] = "lw_reconf"
  /\ crashed' \in CrashOutcomes(clv_offline)
  /\ pc' = [pc EXCEPT ![t] = "lw_ready"]
  /\ IF clv_offline = NULL \/ Dangling(clv_offline)
       THEN UNCHANGED <<eng_st, any_fail>>
       ELSE \E r \in {"ready", "unready"} :
              /\ eng_st' = [eng_st EXCEPT ![clv_offline] = r]
              /\ any_fail' = (any_fail \/ r = "unready")
  /\ UNCHANGED <<clv_online, clv_offline, pset_dirty, state_lock, next_queued_file,
                 workq, respq, eng_path, n_eng, ir_path, ok, ret, from_queue, a_pc,
                 a_old, n_ctl, n_restore, last_req, built, free_done, in_cycle, on0,
                 swap_log,
                 level_vars, aux_vars>>

\* line 549: if (!(ok = self->clv_offline->ready ()))
lw_ready(t) ==
  /\ ~crashed
  /\ pc[t] = "lw_ready"
  /\ crashed' \in CrashOutcomes(clv_offline)
  /\ LET r == clv_offline # NULL /\ eng_st[clv_offline] = "ready" IN
       /\ ok' = [ok EXCEPT ![t] = r]
       /\ pc' = [pc EXCEPT ![t] = IF r THEN "lw_unlock" ELSE "lw_delete"]
  /\ UNCHANGED <<clv_online, clv_offline, pset_dirty, state_lock, next_queued_file,
                 workq, respq, eng_st, eng_path, n_eng, ir_path, ret, from_queue,
                 a_pc, a_old, n_ctl, n_restore, last_req, built, any_fail, free_done,
                 in_cycle, on0, swap_log,
                 level_vars, aux_vars>>

\* line 550: delete self->clv_offline
lw_delete(t) ==
  /\ ~crashed
  /\ pc[t] = "lw_delete"
  /\ crashed' \in (IF clv_offline = NULL THEN {FALSE} ELSE CrashOutcomes(clv_offline))
  /\ eng_st' = Delete(eng_st, clv_offline)
  /\ pc' = [pc EXCEPT ![t] = "lw_null"]
  /\ UNCHANGED <<clv_online, clv_offline, pset_dirty, state_lock, next_queued_file,
                 workq, respq, eng_path, n_eng, ir_path, ok, ret, from_queue, a_pc,
                 a_old, n_ctl, n_restore, last_req, built, any_fail, free_done,
                 in_cycle, on0, swap_log,
                 level_vars, aux_vars>>

\* line 551: self->clv_offline = NULL
lw_null(t) ==
  /\ ~crashed
  /\ pc[t] = "lw_null"
  /\ clv_offline' = NULL
  /\ pc' = [pc EXCEPT ![t] = "lw_unlock"]
  /\ UNCHANGED <<clv_online, pset_dirty, state_lock, next_queued_file, workq, respq,
                 eng_st, eng_path, n_eng, ir_path, ok, ret, from_queue, a_pc, a_old,
                 crashed, n_ctl, n_restore, last_req, built, any_fail, free_done,
                 in_cycle, on0, swap_log,
                 level_vars, aux_vars>>

\* lines 558-566: unlock; an error status when the build failed, otherwise
\* respond (handle, 1, "") when a respond function was passed (work passes
\* one, restore passes NULL)
lw_unlock(t) ==
  /\ ~crashed
  /\ pc[t] = "lw_unlock"
  /\ state_lock' = "none"
  /\ ret' = [ret EXCEPT ![t] = IF ok[t] THEN LV2_WORKER_SUCCESS ELSE LV2_WORKER_ERR_UNKNOWN]
  /\ respq' = IF ok[t] /\ t = "worker" THEN respq + 1 ELSE respq
  /\ pc' = [pc EXCEPT ![t] = ReturnPc(t)]
  /\ ir_path' = [ir_path EXCEPT ![t] = EmptyPath]
  /\ on0' = [on0 EXCEPT ![t] = NULL]
  /\ ok' = [ok EXCEPT ![t] = (ok[t] /\ t # "worker")]
  /\ from_queue' = (from_queue /\ t # "worker")
  /\ UNCHANGED <<clv_online, clv_offline, pset_dirty, next_queued_file, workq,
                 eng_st, eng_path, n_eng, a_pc, a_old,
                 crashed, n_ctl, n_restore, last_req, built, any_fail, free_done,
                 in_cycle, swap_log,
                 level_vars, aux_vars>>

load_ir_worker(t) ==
  \/ lw_lock(t) \/ lw_new(t) \/ lw_reconf(t) \/ lw_ready(t)
  \/ lw_delete(t) \/ lw_null(t) \/ lw_unlock(t)

\* ---------------------------------------------------------------------
\* worker thread: work ()

\* lines 579-583 and 607-611: take the next request; a path starts
\* load_ir_worker, CMD_APPLY is answered with respond, CMD_FREE goes to line 586
work_take ==
  /\ ~crashed
  /\ pc["worker"] = "idle"
  /\ workq # <<>>
  /\ workq' = Tail(workq)
  /\ ret' = [ret EXCEPT !["worker"] = LV2_WORKER_SUCCESS]
  /\ LET item == Head(workq) IN
       IF item.kind = "path"
         THEN /\ ir_path' = [ir_path EXCEPT !["worker"] = item.data]
              /\ pc' = [pc EXCEPT !["worker"] = "lw_lock"]
              /\ from_queue' = FALSE
              /\ UNCHANGED respq
         ELSE IF item.data = CMD_APPLY
           THEN /\ respq' = respq + 1
                /\ UNCHANGED <<ir_path, pc, from_queue>>
           ELSE /\ pc' = [pc EXCEPT !["worker"] = "fr_delete"]
                /\ UNCHANGED <<ir_path, respq, from_queue>>
  /\ UNCHANGED <<clv_online, clv_offline, pset_dirty, state_lock, next_queued_file,
                 eng_st, eng_path, n_eng, ok, a_pc, a_old, crashed, n_ctl,
                 n_restore, last_req, built, any_fail, free_done, in_cycle, on0,
                 swap_log,
                 level_vars, aux_vars>>

\* CMD_FREE, lines 586-587: lock; delete self->clv_offline
fr_delete ==
  /\ ~crashed
  /\ pc["worker"] = "fr_delete"
  /\ LockFree
  /\ state_lock' = "worker"
  /\ crashed' \in (IF clv_offline = NULL THEN {FALSE} ELSE CrashOutcomes(clv_offline))
  /\ eng_st' = Delete(eng_st, clv_offline)
  /\ pc' = [pc EXCEPT !["worker"] = "fr_null"]
  /\ UNCHANGED <<clv_online, clv_offline, pset_dirty, next_queued_file, workq, respq,
                 eng_path, n_eng, ir_path, ok, ret, from_queue, a_pc, a_old, n_ctl,
                 n_restore, last_req, built, any_fail, free_done, in_cycle, on0,
                 swap_log,
                 level_vars, aux_vars>>

\* CMD_FREE, line 588: self->clv_offline = NULL
fr_null ==
  /\ ~crashed
  /\ pc["worker"] = "fr_null"
  /\ clv_offline' = NULL
  /\ pc' = [pc EXCEPT !["worker"] = "fr_swap"]
  /\ UNCHANGED <<clv_online, pset_dirty, state_lock, next_queued_file, workq, respq,
                 eng_st, eng_path, n_eng, ir_path, ok, ret, from_queue, a_pc, a_old,
                 crashed, n_ctl, n_restore, last_req, built, any_fail, free_done,
                 in_cycle, on0, swap_log,
                 level_vars, aux_vars>>

\* CMD_FREE, lines 590-598: take the queued file, unlock, and load it when
\* there is one
fr_swap ==
  /\ ~crashed
  /\ pc["worker"] = "fr_swap"
  /\ next_queued_file' = EmptyPath
  /\ state_lock' = "none"
  /\ free_done' = TRUE
  /\ IF next_queued_file # EmptyPath
       THEN /\ ir_path' = [ir_path EXCEPT !["worker"] = next_queued_file]
            /\ pc' = [pc EXCEPT !["worker"] = "lw_lock"]
            /\ from_queue' = TRUE
       ELSE /\ pc' = [pc EXCEPT !["worker"] = "idle"]
            /\ UNCHANGED <<ir_path, from_queue>>
  /\ UNCHANGED <<clv_online, clv_offline, pset_dirty, workq, respq, eng_st, eng_path,
                 n_eng, ok, ret, a_pc, a_old, crashed, n_ctl, n_restore, last_req,
                 built, any_fail, in_cycle, on0, swap_log,
                 level_vars, aux_vars>>

work == work_take \/ fr_delete \/ fr_null \/ fr_swap \/ load_ir_worker("worker")

\* ---------------------------------------------------------------------
\* restore (), called by the host on a thread of its own

\* lines 769-780: the stored path is handed to load_ir_worker with no
\* respond function
rs_call ==
  /\ ~crashed
  /\ pc["restore"] = "idle"
  /\ n_restore < MaxRestore
  /\ n_ctl + n_restore < MaxReq
  /\ n_restore' = n_restore + 1
  /\ ir_path' = [ir_path EXCEPT !["restore"] = RestorePath(n_restore + 1)]
  /\ last_req' = RestorePath(n_restore + 1)
  /\ in_cycle' = (in_cycle /\ ~free_done)
  /\ pc' = [pc EXCEPT !["restore"] = "lw_lock"]
  /\ ret' = [ret EXCEPT !["restore"] = LV2_WORKER_SUCCESS]
  /\ UNCHANGED <<clv_online, clv_offline, pset_dirty, state_lock, next_queued_file,
                 workq, respq, eng_st, eng_path, n_eng, ok, from_queue, a_pc,
                 a_old, crashed, n_ctl, built, any_fail, free_done, on0, swap_log,
                 level_vars, aux_vars>>

\* lines 799-806: when the engine was built, pset_dirty = false and
\* CMD_APPLY is scheduled
rs_after ==
  /\ ~crashed
  /\ pc["restore"] = "rs_after"
  /\ pc' = [pc EXCEPT !["restore"] = "idle"]
  /\ IF ok["restore"]
       THEN /\ pset_dirty' = FALSE
            /\ workq' = Append(workq, CmdItem(CMD_APPLY))
       ELSE UNCHANGED <<pset_dirty, workq>>
  /\ ok' = [ok EXCEPT !["restore"] = FALSE]
  /\ UNCHANGED <<clv_online, clv_offline, state_lock, next_queued_file, respq,
                 eng_st, eng_path, n_eng, ir_path, ret, from_queue, a_pc, a_old,
                 crashed, n_ctl, n_restore, last_req, built, any_fail, free_done,
                 in_cycle, on0, swap_log,
                 level_vars, aux_vars>>

restore == rs_call \/ rs_after \/ load_ir_worker("restore")

\* ---------------------------------------------------------------------

Next == run_cfg \/ run \/ work_response \/ work \/ restore

Spec == Init /\ [][Next]_vars


\* ---------------------------------------------------------------------
\* properties of the facade

\* positions of load_ir_worker between the constructor and the unlock
BuildPcs == {"lw_new", "lw_reconf", "lw_ready", "lw_delete", "lw_null", "lw_unlock"}

Building == {t \in Threads : pc[t] \in BuildPcs}

\* nothing is scheduled, in flight or being handled
Quiescent ==
  /\ workq = <<>>
  /\ respq = 0
  /\ a_pc = "idle"
  /\ \A t \in Threads : pc[t] = "idle"

\* C1: at most one build is in progress at any time; load_ir_worker goes on to
\* the constructor only when it found clv_offline empty, and when it found
\* clv_offline non-empty it only overwrites next_queued_file and returns
\* LV2_WORKER_SUCCESS without constructing anything.
C1_LoadStep(t) ==
  /\ (pc[t] = "lw_lock" /\ pc'[t] = "lw_new") => clv_offline = NULL
  /\ (pc[t] = "lw_lock" /\ pc'[t] # "lw_lock" /\ clv_offline # NULL) =>
        /\ next_queued_file' = ir_path[t]
        /\ pc'[t] = ReturnPc(t)
        /\ ret'[t] = LV2_WORKER_SUCCESS
        /\ UNCHANGED <<clv_online, clv_offline, n_eng, eng_st, built, respq, workq, state_lock>>

C2_Distinct == clv_online = NULL \/ clv_offline = NULL \/ clv_online # clv_offline

\* C3: last request wins: when the audio thread has scheduled loads whose
\* builds all succeeded and everything scheduled has been processed, the
\* online engine is the one built from the most recently requested path.
C3_LastRequestWins ==
  (Quiescent /\ ~crashed /\ n_restore = 0 /\ n_ctl >= 1 /\ ~any_fail) =>
     (clv_online # NULL /\ eng_path[clv_online] = last_req)

\* C4: coalescing: when n >= 2 loads are requested before the first CMD_FREE
\* has been processed, exactly two engines are built, for the first and for
\* the last path.
C4_Coalescing ==
  (Quiescent /\ ~crashed /\ in_cycle /\ n_restore = 0 /\ n_ctl >= 2 /\ ~any_fail) =>
     built = <<CtlPath(1), CtlPath(n_ctl)>>

\* C5: the online engine is never a deleted engine.
C5_OnlineLive == clv_online = NULL \/ eng_st[clv_online] # "deleted"

\* C6: when load_ir_worker returns after a failed construction, clv_offline is
\* empty, no response has been sent, the status is an error and clv_online is
\* the engine that was online when the request was entered.
C6_FailStep(t) ==
  (pc[t] = "lw_unlock" /\ ~ok[t] /\ pc'[t] # "lw_unlock") =>
     /\ clv_offline' = NULL
     /\ respq' = respq
     /\ ret'[t] = LV2_WORKER_ERR_UNKNOWN
     /\ clv_online' = on0[t]

C6_FailureKeepsOnline == [][\A t \in Threads : C6_FailStep(t)]_vars

\* C8: every step that writes clv_online or clv_offline is taken by the
\* thread that holds state_lock.
C8_WritesUnderLock ==
  [][(clv_online' # clv_online \/ clv_offline' # clv_offline) =>
        (state_lock # "none" /\ pc'[state_lock] # pc[state_lock])]_vars

\* C10: the mark_dirty passed to inform_ui at a swap is true exactly when the
\* engine swapped in was built from a control-port path.
C10_DirtyFollowsOrigin ==
  swap_log.eng # NULL => (swap_log.dirty <=> FromCtl(eng_path[swap_log.eng]))


\* ---------------------------------------------------------------------
\* progress: the host's worker thread keeps taking requests, the host keeps
\* delivering responses at the end of run cycles, and a thread inside
\* restore keeps running; the host is free to stop sending requests

LiveSpec ==
  /\ Spec
  /\ WF_vars(work)
  /\ WF_vars(work_response)
  /\ WF_vars(rs_after \/ load_ir_worker("restore"))

\* C7: whenever next_queued_file is non-empty, the worker eventually
\* processes a CMD_FREE that takes the queued file and starts a build of it.
C7_QueueDrained ==
  (next_queued_file # EmptyPath) ~> (pc["worker"] = "lw_new" /\ from_queue)


\* restore has returned LV2_STATE_SUCCESS for its k-th path and no load has
\* been requested since
RestoredLast(k) ==
  /\ n_restore = k
  /\ pc["restore"] = "idle"
  /\ ret["restore"] = LV2_WORKER_SUCCESS
  /\ last_req = RestorePath(k)

\* C11: after restore has returned success for a loadable path, and with no
\* later load request, the engine built from the restored path eventually
\* becomes the online engine.
C11_RestoreGoesOnline ==
  \A k \in 1 .. MaxRestore :
    RestoredLast(k) ~>
      \/ last_req # RestorePath(k)
      \/ any_fail
      \/ (clv_online # NULL /\ eng_path[clv_online] = RestorePath(k))


\* ---------------------------------------------------------------------
\* Convproc / Convlevel: the audio thread's Convproc::process and
\* Convlevel::readout against the thread of one level whose partition size
\* is larger than the quantum (quantum = minpart, as Convolver::reconfigure
\* configures it)

RECURSIVE Pow2(_)
Pow2(n) == IF n = 0 THEN 1 ELSE 2 * Pow2(n - 1)

\* _parsize / _outsize of the threaded level
LvRatio == Pow2(LvShift)

\* Convproc::configure line 327, in units of the quantum: the input ring holds
\* twice the largest partition, here the threaded level's
InpSize == 2 * LvRatio

\* Convproc::inpdata: the audio thread writes its next block at _inpoffs
inpdata == cp_inpoffs

ResetInpoffs_full == InpSize - LvRatio

\* Convlevel::reset, lines 761-762: _outoffs = _parsize / 2 and
\* _inpoffs = _inpsize - _outoffs
ResetInpoffs == InpSize - LvRatio \div 2

MustWait_never(w) == FALSE

\* Convlevel::readout, line 1023: while (_wait)
MustWait(w) == w > 0

WriteSet_cur(op) == {op, (op + 1) % 3}

\* Convlevel::process, lines 959-960: opi1 = (_opind + 1) % 3 and
\* opi2 = (_opind + 2) % 3 are the output buffers process () writes
WriteSet(op) == {(op + 1) % 3, (op + 2) % 3}

\* Convproc::restart_process from ST_STOP, lines 440-451: reset, then
\* Convlevel::start creates the level's thread
restart_process ==
  /\ au_pc = "idle"
  /\ cp_state = "STOP"
  /\ lv_pc = "none"
  /\ cp_latecnt' = 0
  /\ lv_outoffs' = LvRatio \div 2
  /\ lv_wait' = 0
  /\ lv_ptind' = 0
  /\ lv_opind' = 0
  /\ sem_trig' = 0
  /\ sem_done' = 0
  /\ lv_pc' = "start"
  /\ au_pc' = "starting"
  /\ cp_inpoffs' = 0
  /\ lv_inpoffs' = ResetInpoffs
  /\ lv_window' = {}
  /\ lv_written' = {}
  /\ lv_trigs' = 0
  /\ lv_blocked' = FALSE
  /\ late_run' = 0
  /\ lv_ret' = 0
  /\ lv_sub' = FALSE
  /\ lv_outkind' = "none"
  /\ UNCHANGED <<cp_state, lv_stat,
                 ring_vars, facade_vars, aux_vars>>

\* lines 453-458: wait until check_started sees the level in ST_PROC
check_started ==
  /\ au_pc = "starting"
  /\ lv_stat = "PROC"
  /\ cp_state' = "PROC"
  /\ au_pc' = "idle"
  /\ UNCHANGED <<cp_latecnt, lv_stat, lv_wait, lv_outoffs, lv_opind, lv_ptind,
                 sem_trig, sem_done, lv_pc,
                 cp_inpoffs, lv_inpoffs, lv_window, lv_written, lv_trigs, lv_blocked, late_run, lv_ret, lv_sub, lv_outkind,
                 ring_vars, facade_vars, aux_vars>>

\* Convproc::process, lines 468-485: with quantum = minpart every call
\* reads out every level
process ==
  /\ au_pc = "idle"
  /\ cp_state = "PROC"
  /\ au_pc' = "readout"
  /\ lv_written' = lv_written \cup {inpdata}
  /\ cp_inpoffs' = (cp_inpoffs + 1) % InpSize
  /\ lv_sub' = (late_run = LateMax)
  /\ UNCHANGED <<cp_state, cp_latecnt, lv_stat, lv_wait, lv_outoffs, lv_opind,
                 lv_ptind, sem_trig, sem_done, lv_pc,
                 lv_inpoffs, lv_window, lv_trigs, lv_blocked, late_run, lv_ret, lv_outkind,
                 ring_vars, facade_vars, aux_vars>>

\* Convlevel::readout, lines 1019-1022 and 1033-1037: the output offset
\* advances; when it wraps, a level that is not in ST_PROC is processed inline
readout ==
  /\ au_pc = "readout"
  /\ IF lv_outoffs + 1 = LvRatio
       THEN /\ lv_outoffs' = 0
            /\ IF lv_stat = "PROC"
                 THEN /\ au_pc' = "done_wait"
                      /\ lv_blocked' = (MustWait(lv_wait) /\ sem_done = 0)
                      /\ late_run' = IF MustWait(lv_wait) /\ sem_done = 0
                                       THEN (IF late_run < LateMax THEN late_run + 1
                                                                    ELSE LateMax)
                                       ELSE IF late_run = LateMax THEN LateMax ELSE 0
                      /\ UNCHANGED <<lv_ptind, lv_opind, lv_inpoffs>>
                 ELSE /\ lv_ptind' = (lv_ptind + 1) % LvNpar
                      /\ lv_inpoffs' = (lv_inpoffs + LvRatio) % InpSize
                      /\ lv_opind' = (lv_opind + 1) % 3
                      /\ au_pc' = "mix"
                      /\ lv_blocked' = FALSE
                      /\ UNCHANGED late_run
       ELSE /\ lv_outoffs' = lv_outoffs + 1
            /\ au_pc' = "mix"
            /\ lv_blocked' = FALSE
            /\ UNCHANGED <<lv_ptind, lv_opind, lv_inpoffs, late_run>>
  /\ UNCHANGED <<cp_state, cp_latecnt, lv_stat, lv_wait, sem_trig, sem_done, lv_pc,
                 cp_inpoffs, lv_window, lv_written, lv_trigs, lv_ret, lv_sub,
                 lv_outkind, ring_vars, facade_vars, aux_vars>>

\* lines 1023-1026: while (_wait) { _done.wait (); _wait--; }
done_wait ==
  /\ au_pc = "done_wait"
  /\ MustWait(lv_wait)
  /\ sem_done > 0
  /\ sem_done' = sem_done - 1
  /\ lv_wait' = lv_wait - 1
  /\ UNCHANGED <<cp_state, cp_latecnt, lv_stat, lv_outoffs, lv_opind, lv_ptind,
                 sem_trig, lv_pc, au_pc,
                 cp_inpoffs, lv_inpoffs, lv_window, lv_written, lv_trigs, lv_blocked, late_run, lv_ret, lv_sub, lv_outkind,
                 ring_vars, facade_vars, aux_vars>>

\* lines 1027-1031: advance _opind, _trig.post (), _wait++
trig_post ==
  /\ au_pc = "done_wait"
  /\ ~ MustWait(lv_wait)
  /\ lv_opind' = (lv_opind + 1) % 3
  /\ sem_trig' = sem_trig + 1
  /\ lv_wait' = lv_wait + 1
  /\ au_pc' = "mix"
  /\ lv_window' = {(lv_inpoffs + j) % InpSize : j \in 0 .. LvRatio - 1}
  /\ lv_written' = {}
  /\ lv_trigs' = (lv_trigs + 1) % LvNpar
  /\ UNCHANGED <<cp_state, cp_latecnt, lv_stat, lv_outoffs, lv_ptind, sem_done, lv_pc,
                 cp_inpoffs, lv_inpoffs, lv_blocked, late_run, lv_ret, lv_sub, lv_outkind,
                 ring_vars, facade_vars, aux_vars>>

\* Convlevel::stop, lines 862-865
LevelStop(stat) == IF stat # "IDLE" THEN "TERM" ELSE stat

\* readout lines 1040-1048 return (_wait > 1) ? _bits : 0, and
\* Convproc::process lines 486-497 count the late cycle
mix ==
  /\ au_pc = "mix"
  /\ au_pc' = "idle"
  /\ LET f == lv_wait > 1 IN
       IF f
         THEN /\ cp_latecnt' = cp_latecnt + 1
              /\ IF cp_latecnt + 1 >= LateMax /\ ~OPT_LATE_CONTIN /\ cp_state = "PROC"
                   THEN /\ cp_state' = "WAIT"
                        /\ lv_stat' = LevelStop(lv_stat)
                        /\ sem_trig' = IF lv_stat # "IDLE" THEN sem_trig + 1 ELSE sem_trig
                   ELSE UNCHANGED <<cp_state, lv_stat, sem_trig>>
         ELSE /\ cp_latecnt' = 0
              /\ UNCHANGED <<cp_state, lv_stat, sem_trig>>
  /\ lv_ret' = (IF lv_wait > 1 THEN LvRatio ELSE 0)
  /\ lv_outkind' = "signal"
  /\ UNCHANGED <<lv_wait, lv_outoffs, lv_opind, lv_ptind, sem_done, lv_pc,
                 cp_inpoffs, lv_inpoffs, lv_window, lv_written, lv_trigs, lv_blocked, late_run, lv_sub,
                 ring_vars, facade_vars, aux_vars>>

\* Convproc::stop_process, lines 528-535, called between audio cycles
stop_process ==
  /\ au_pc = "idle"
  /\ cp_state = "PROC"
  /\ lv_stat' = LevelStop(lv_stat)
  /\ sem_trig' = IF lv_stat # "IDLE" THEN sem_trig + 1 ELSE sem_trig
  /\ cp_state' = "WAIT"
  /\ UNCHANGED <<cp_latecnt, lv_wait, lv_outoffs, lv_opind, lv_ptind, sem_done,
                 lv_pc, au_pc,
                 cp_inpoffs, lv_inpoffs, lv_window, lv_written, lv_trigs, lv_blocked, late_run, lv_ret, lv_sub, lv_outkind,
                 ring_vars, facade_vars, aux_vars>>

\* Convproc::check_stop, lines 580-590: every level is idle again
check_stop ==
  /\ au_pc = "idle"
  /\ cp_state = "WAIT"
  /\ lv_stat = "IDLE"
  /\ lv_pc = "exited"
  /\ cp_state' = "STOP"
  /\ lv_pc' = "none"
  /\ UNCHANGED <<cp_latecnt, lv_stat, lv_wait, lv_outoffs, lv_opind, lv_ptind,
                 sem_trig, sem_done, au_pc,
                 cp_inpoffs, lv_inpoffs, lv_window, lv_written, lv_trigs, lv_blocked, late_run, lv_ret, lv_sub, lv_outkind,
                 ring_vars, facade_vars, aux_vars>>

\* Convlevel::main, line 922: _stat = ST_PROC
main_start ==
  /\ lv_pc = "start"
  /\ lv_stat' = "PROC"
  /\ lv_pc' = "trig_wait"
  /\ UNCHANGED <<cp_state, cp_latecnt, lv_wait, lv_outoffs, lv_opind, lv_ptind,
                 sem_trig, sem_done, au_pc,
                 cp_inpoffs, lv_inpoffs, lv_window, lv_written, lv_trigs, lv_blocked, late_run, lv_ret, lv_sub, lv_outkind,
                 ring_vars, facade_vars, aux_vars>>

\* Convlevel::main, lines 924-931: _trig.wait (); on ST_TERM the thread
\* becomes idle and returns
main_trig ==
  /\ lv_pc = "trig_wait"
  /\ sem_trig > 0
  /\ sem_trig' = sem_trig - 1
  /\ IF lv_stat = "TERM"
       THEN lv_stat' = "IDLE" /\ lv_pc' = "exited" /\ lv_wr' = {}
       ELSE lv_pc' = "process" /\ lv_wr' = WriteSet(lv_opind) /\ UNCHANGED lv_stat
  /\ UNCHANGED <<cp_state, cp_latecnt, lv_wait, lv_outoffs, lv_opind, lv_ptind,
                 sem_done, au_pc,
                 cp_inpoffs, lv_inpoffs, lv_window, lv_written, lv_trigs, lv_blocked, late_run, lv_ret, lv_sub, lv_outkind,
                 lv_tailop, facade_vars, aux_vars>>

\* Convlevel::main line 932, Convlevel::process lines 1006-1009
main_process ==
  /\ lv_pc = "process"
  /\ lv_ptind' = (lv_ptind + 1) % LvNpar
  /\ lv_pc' = "post"
  /\ lv_wr' = {}
  /\ lv_inpoffs' = (lv_inpoffs + LvRatio) % InpSize
  /\ UNCHANGED <<cp_state, cp_latecnt, lv_stat, lv_wait, lv_outoffs, lv_opind,
                 sem_trig, sem_done, au_pc,
                 cp_inpoffs, lv_window, lv_written, lv_trigs, lv_blocked, late_run, lv_ret, lv_sub, lv_outkind,
                 lv_tailop, facade_vars, aux_vars>>

\* Convlevel::main line 933: _done.post ()
main_done ==
  /\ lv_pc = "post"
  /\ sem_done' = sem_done + 1
  /\ lv_pc' = "trig_wait"
  /\ UNCHANGED <<cp_state, cp_latecnt, lv_stat, lv_wait, lv_outoffs, lv_opind,
                 lv_ptind, sem_trig, au_pc,
                 cp_inpoffs, lv_inpoffs, lv_window, lv_written, lv_trigs, lv_blocked, late_run, lv_ret, lv_sub, lv_outkind,
                 ring_vars, facade_vars, aux_vars>>

\* Convproc::process, lines 468-470, on an engine that has run and is no
\* longer in ST_PROC: it returns 0 and the output accumulators keep what the
\* last cycle left in them
process_stopped ==
  /\ au_pc = "idle"
  /\ cp_state # "PROC"
  /\ lv_outkind # "none"
  /\ lv_outkind' = "stale"
  /\ lv_ret' = 0
  /\ lv_sub' = FALSE
  /\ UNCHANGED <<cp_state, cp_latecnt, lv_stat, lv_wait, lv_outoffs, lv_opind,
                 lv_ptind, sem_trig, sem_done, lv_pc, au_pc, cp_inpoffs, lv_inpoffs,
                 lv_window, lv_written, lv_trigs, lv_blocked, late_run,
                 ring_vars, facade_vars, aux_vars>>

readtail_members(op, oo) == <<(op + 1) % 3, 0>>

\* Convlevel::readtail, lines 1056-1066: opind and outoffs are locals; the
\* members _opind and _outoffs keep their values
readtail_keeps(op, oo) == <<op, oo>>

\* Convproc::tailonly, lines 507-519, and Convlevel::readtail, lines
\* 1056-1058: in ST_PROC, with quantum = minpart, every level's tail is read;
\* outoffs = _outoffs + _outsize decides whether the cycle has wrapped
tailonly ==
  /\ au_pc = "idle"
  /\ cp_state = "PROC"
  /\ IF lv_outoffs + 1 = LvRatio
       THEN au_pc' = "tail_wait" /\ UNCHANGED lv_tailop
       ELSE au_pc' = "tail_mix" /\ lv_tailop' = lv_opind
  /\ lv_opind' = readtail_keeps(lv_opind, lv_outoffs)[1]
  /\ lv_outoffs' = readtail_keeps(lv_opind, lv_outoffs)[2]
  /\ UNCHANGED <<cp_state, cp_latecnt, lv_stat, lv_wait, lv_ptind,
                 sem_trig, sem_done, lv_pc, hist_vars, lv_wr,
                 facade_vars, aux_vars>>

\* readtail lines 1060-1063: while (_wait) { _done.wait (); _wait--; }
tail_wait ==
  /\ au_pc = "tail_wait"
  /\ MustWait(lv_wait)
  /\ sem_done > 0
  /\ sem_done' = sem_done - 1
  /\ lv_wait' = lv_wait - 1
  /\ UNCHANGED <<cp_state, cp_latecnt, lv_stat, lv_outoffs, lv_opind, lv_ptind,
                 sem_trig, lv_pc, au_pc, hist_vars, ring_vars,
                 facade_vars, aux_vars>>

\* readtail lines 1064-1066: outoffs = 0; if (++opind == 3) opind = 0, on
\* the local copy
tail_next ==
  /\ au_pc = "tail_wait"
  /\ ~ MustWait(lv_wait)
  /\ lv_tailop' = (lv_opind + 1) % 3
  /\ au_pc' = "tail_mix"
  /\ UNCHANGED <<cp_state, cp_latecnt, lv_stat, lv_wait, lv_outoffs, lv_opind,
                 lv_ptind, sem_trig, sem_done, lv_pc, hist_vars, lv_wr,
                 facade_vars, aux_vars>>

\* readtail lines 1069-1077: the first n samples of _buff [opind] are added
\* to the output accumulators
tail_mix ==
  /\ au_pc = "tail_mix"
  /\ au_pc' = "idle"
  /\ UNCHANGED <<cp_state, cp_latecnt, lv_stat, lv_wait, lv_outoffs, lv_opind,
                 lv_ptind, sem_trig, sem_done, lv_pc, hist_vars, ring_vars,
                 facade_vars, aux_vars>>

NextLevel ==
  \/ tailonly \/ tail_wait \/ tail_next \/ tail_mix
  \/ restart_process \/ check_started \/ process \/ process_stopped \/ readout
  \/ done_wait
  \/ trig_post \/ mix \/ stop_process \/ check_stop
  \/ main_start \/ main_trig \/ main_process \/ main_done

SpecLevel == Init /\ [][NextLevel]_vars

\* C9: the audio thread is never blocked: it is never inside _done.wait ()
\* with nothing posted, waiting for the level thread.
C9_AudioNeverBlocks == ~(au_pc = "done_wait" /\ lv_wait > 0 /\ sem_done = 0)

\* C22: late-cycle policy of Convproc::process: after five consecutive late
\* readout cycles, with OPT_LATE_CONTIN clear, the engine is no longer in
\* ST_PROC when the fifth process () call has returned
C22_StopsOnFifthLate ==
  (au_pc = "idle" /\ late_run = LateMax /\ ~OPT_LATE_CONTIN) => cp_state # "PROC"

\* C23: Convlevel::readout returns the level's non-zero bits when the wait on
\* _done had to block, and zero when the worker had already finished
C23_ReadoutReportsBlocking ==
  (au_pc = "idle" /\ lv_outkind = "signal" /\ lv_outoffs = 0 /\ lv_stat = "PROC")
    => (lv_ret = (IF lv_blocked THEN LvRatio ELSE 0))

Pending == sem_trig + (IF lv_pc \in {"process", "post"} THEN 1 ELSE 0) + sem_done

\* C25: while engine and level are in ST_PROC the events of a level are
\* ordered trig, process, done: at most one cycle is triggered and unfinished,
\* _wait counts exactly that cycle, and ptind has advanced once per finished
\* process (), modulo the number of partitions
C25_OneCycleInFlight ==
  (cp_state = "PROC" /\ lv_stat = "PROC")
    => /\ lv_wait <= 1
       /\ lv_wait = Pending
       /\ lv_ptind = (lv_trigs + LvNpar
                        - (sem_trig + (IF lv_pc = "process" THEN 1 ELSE 0))) % LvNpar

C25_Witness ==
  /\ cp_state = "PROC" /\ lv_stat = "PROC"
  /\ lv_pc = "post" /\ lv_wait = 1 /\ lv_ptind = 0 /\ lv_trigs = 0
  /\ au_pc = "readout"

\* C27: while the worker of a level is inside process (), the audio thread has
\* written no slot of the input ring inside the window the worker reads
C27_InputRingDisjoint ==
  lv_pc = "process" => lv_window \cap lv_written = {}

C27_Witness ==
  /\ lv_pc = "process" /\ lv_window # {} /\ lv_written # {}
  /\ Cardinality(lv_written) = LvRatio


\* ---------------------------------------------------------------------
\* state save / restore (src/src/lv2.cc save, restore): floats are named by
\* small integers, the bag holds NoValue for a key that is missing or has
\* the wrong size or type

MaxVal == 2    \* distinct values a stored setting can take

Opt(S) == S \cup {NoValue}

\* vectors of four channel values of which the first two vary
ChanVecs(S, d) == {<<a, b, d, d>> : a \in S, b \in S}

BagSet ==
  [ir : Opt(1 .. MaxVal), gain : Opt(1 .. MaxVal), predelay : Opt(0 .. MaxVal - 1),
   latency : Opt(0 .. MaxVal - 1), sum_ins : Opt({0, 1}),
   chn_gain : ChanVecs(1 .. MaxVal, 1) \cup {NoVector},
   chn_delay : ChanVecs(0 .. MaxVal - 1, 0) \cup {NoVector}]

\* a value retrieved from the bag overwrites the default of the local irs
Retrieved(v, d) == IF v # NoValue THEN v ELSE d

\* the same for the two vectors, copied with memcpy
RetrievedVector(v, d) == IF v # NoVector THEN v ELSE d

\* restore, lines 732-773: the settings are read into the local irs; without
\* an ir path restore returns LV2_STATE_ERR_NO_PROPERTY
st_retrieve ==
  /\ s_pc \in {"idle", "restored"}
  /\ r_irs' = [gain |-> Retrieved(bag.gain, DefaultIRSettings.gain),
               pre_delay |-> Retrieved(bag.predelay, DefaultIRSettings.pre_delay),
               artificial_latency |-> Retrieved(bag.latency, DefaultIRSettings.artificial_latency),
               channel_gain |-> RetrievedVector(bag.chn_gain, DefaultIRSettings.channel_gain),
               channel_delay |-> RetrievedVector(bag.chn_delay, DefaultIRSettings.channel_delay),
               sum_inputs |-> IF bag.sum_ins # NoValue THEN bag.sum_ins # 0
                                                       ELSE DefaultIRSettings.sum_inputs]
  /\ IF bag.ir = NoValue
       THEN s_rv' = "LV2_STATE_ERR_NO_PROPERTY" /\ s_pc' = "idle"
       ELSE s_rv' = "none" /\ s_pc' = "load"
  /\ UNCHANGED <<bag, s_eng, facade_vars, level_vars, io_vars, cv_vars, rc_vars, ext_vars>>

\* restore, line 780, and load_ir_worker, line 547: the engine is constructed
\* from the path alone, new Convolver (ir_path, rate, rt_policy, rt_priority,
\* chn_cfg), so its settings are the default argument IRSettings ()
st_load ==
  /\ s_pc = "load"
  /\ \/ /\ s_eng' = [path |-> bag.ir, irs |-> DefaultIRSettings]
        /\ s_rv' = "LV2_STATE_SUCCESS"
        /\ s_pc' = "restored"
     \/ /\ s_rv' = "LV2_STATE_ERR_NO_PROPERTY"
        /\ s_pc' = "idle"
        /\ UNCHANGED s_eng
  /\ UNCHANGED <<bag, r_irs, facade_vars, level_vars, io_vars, cv_vars, rc_vars, ext_vars>>

\* save, lines 646-688: the path and the settings of the online engine are
\* stored; without an engine nothing is stored
st_save ==
  /\ s_pc \in {"idle", "restored"}
  /\ s_pc' = "idle"
  /\ s_rv' = "LV2_STATE_SUCCESS"
  /\ IF s_eng = NoEngine
       THEN UNCHANGED bag
       ELSE bag' = [ir |-> s_eng.path,
                    gain |-> s_eng.irs.gain,
                    predelay |-> s_eng.irs.pre_delay,
                    latency |-> s_eng.irs.artificial_latency,
                    sum_ins |-> IF s_eng.irs.sum_inputs THEN 1 ELSE 0,
                    chn_gain |-> s_eng.irs.channel_gain,
                    chn_delay |-> s_eng.irs.channel_delay]
  /\ UNCHANGED <<r_irs, s_eng, facade_vars, level_vars, io_vars, cv_vars, rc_vars, ext_vars>>

NextState == st_retrieve \/ st_load \/ st_save

\* the host hands restore any bag
InitBag ==
  /\ InitInstance
  /\ InitAudio
  /\ InitConv /\ InitRc /\ InitExt
  /\ cv_args = NoArgs
  /\ bag \in BagSet
  /\ r_irs = DefaultIRSettings
  /\ s_eng = NoEngine
  /\ s_rv = "none"
  /\ s_pc = "idle"

SpecState == InitBag /\ [][NextState]_vars

\* C12: after a successful restore the engine's path and every IRSettings
\* field equal the values stored in the bag.
C12_StateRoundTrip ==
  s_pc = "restored" =>
    /\ s_eng # NoEngine
    /\ s_eng.path = bag.ir
    /\ bag.gain # NoValue => s_eng.irs.gain = bag.gain
    /\ bag.predelay # NoValue => s_eng.irs.pre_delay = bag.predelay
    /\ bag.latency # NoValue => s_eng.irs.artificial_latency = bag.latency
    /\ bag.sum_ins # NoValue => s_eng.irs.sum_inputs = (bag.sum_ins # 0)
    /\ bag.chn_gain # NoVector => s_eng.irs.channel_gain = bag.chn_gain
    /\ bag.chn_delay # NoVector => s_eng.irs.channel_delay = bag.chn_delay


\* instantiate (src/src/lv2.cc instantiate): the host's block length options
\* and the descriptor decide whether a handle is returned

MinBlock == 64      \* smallest block_size an instance is given
MaxBlock == 8192    \* largest host block length instantiate accepts
Int32Max == 2147483647

Descriptors ==
  {"Mono", "CfgMono", "Stereo", "CfgStereo", "MonoToStereo", "CfgMonoToStereo"}

ChnIn(d)  == IF d \in {"Stereo", "CfgStereo"} THEN 2 ELSE 1
ChnOut(d) == IF d \in {"Mono", "CfgMono"} THEN 1 ELSE 2
IsCfg(d)  == d \in {"CfgMono", "CfgStereo", "CfgMonoToStereo"}

\* option values a host may hand over: int32 atoms, 0 stands for "not given"
HostLens == {-1, 0, 1, MinBlock - 1, MinBlock, MinBlock + 1,
             MaxBlock - 1, MaxBlock, MaxBlock + 1}

\* the int32 option value stored in a uint32_t: a negative one becomes a
\* value above Int32Max, for which Int32Max stands
AsUint32(v) == IF v < 0 THEN Int32Max ELSE v

\* the block length instantiate works with: the nominal one, else the maximum
HostBlock ==
  IF AsUint32(host_nominal) = 0 THEN AsUint32(host_max) ELSE AsUint32(host_nominal)

ClampBlock_none(b) == b

\* lines 252-255: a block length below 64 is replaced by 64
ClampBlock(b) == IF b < MinBlock THEN MinBlock ELSE b

instantiate ==
  /\ io_inst = "new"
  /\ IF AsUint32(host_nominal) = 0 /\ AsUint32(host_max) = 0
       THEN io_inst' = "null" /\ UNCHANGED <<block_size, chn_in, chn_out>>
       ELSE IF HostBlock > MaxBlock
         THEN io_inst' = "null" /\ UNCHANGED <<block_size, chn_in, chn_out>>
         ELSE /\ io_inst' = "ok"
              /\ block_size' = ClampBlock(HostBlock)
              /\ chn_in' = ChnIn(descriptor)
              /\ chn_out' = ChnOut(descriptor)
  /\ UNCHANGED <<host_nominal, host_max, descriptor, io_online, buffered, db_dry,
                 db_wet, dry_coeff, dry_target, output, p_latency, io_cb,
                 facade_vars, level_vars, st_vars, cv_vars, rc_vars, ext_vars>>

NextInst == instantiate

\* the host calls instantiate with any descriptor and any pair of options
InitInst ==
  /\ InitInstance
  /\ InitState
  /\ InitConv /\ InitRc /\ InitExt
  /\ cv_args = NoArgs
  /\ host_nominal \in HostLens
  /\ host_max \in HostLens
  /\ descriptor \in Descriptors
  /\ io_inst = "new"
  /\ block_size = 0
  /\ chn_in = 0
  /\ chn_out = 0
  /\ io_online = FALSE
  /\ buffered = TRUE
  /\ db_dry = DbMin
  /\ db_wet = 0
  /\ dry_coeff = 0
  /\ dry_target = 0
  /\ output = <<>>
  /\ p_latency = 0
  /\ io_cb = NoCallback

SpecInst == InitInst /\ [][NextInst]_vars

Min(a, b) == IF a < b THEN a ELSE b
Max(a, b) == IF a > b THEN a ELSE b

\* C15 as stated: for every block length b the host supplies, instantiation
\* succeeds and block_size = min (max (b, 64), 8192).
C15_ClampsBothEnds ==
  (io_inst # "new" /\ HostBlock # 0) =>
    /\ io_inst = "ok"
    /\ block_size = Min(Max(HostBlock, MinBlock), MaxBlock)

\* C15: a supplied block length of at most 8192 gives an instance with
\* block_size = max (b, 64); a larger one makes instantiate return NULL.
C15_ClampsBelowRejectsAbove ==
  (io_inst # "new" /\ HostBlock # 0) =>
    IF HostBlock <= MaxBlock
      THEN io_inst = "ok" /\ block_size = Max(HostBlock, MinBlock)
      ELSE io_inst = "null"

C15_Witness ==
  io_inst = "ok" /\ HostBlock < MinBlock /\ block_size = MinBlock

\* the audio callbacks (src/src/lv2.cc run, run_cfg): sample values and gain
\* coefficients are integers, a coefficient g stands for g / CoefUnit, so an
\* output sample holds its value times CoefUnit

MaxSamples == 1     \* samples per callback
Samples    == {0, 1}
Wet        == -1    \* an output sample computed by the convolver

DbVals    == {DbMin, -6, 0, DbMax + 1}
DbWetVals == {DbMin, 0}

\* 10^(db / 20) on the coefficient grid at the levels of DbVals
db_to_coeff(db) ==
  IF db <= DbMin THEN 0
  ELSE IF db > DbMax THEN 2 * CoefUnit
  ELSE IF db = 0 THEN CoefUnit ELSE CoefUnit \div 2

\* Convolver::reconfigure (block_size) with the default threaded = true sets
\* _n_samples = 64, and latency () returns _n_samples
ThreadedQuantum == 64
latency == ThreadedQuantum

\* every engine is constructed with the default IRSettings
artificial_latency == DefaultIRSettings.artificial_latency

Buffers(n, m) == [1 .. n -> [1 .. m -> Samples]]

Fill(n, m, v) == [c \in 1 .. n |-> [i \in 1 .. m |-> v]]

Scale(buf, g) == [c \in DOMAIN buf |-> [i \in DOMAIN buf[c] |-> buf[c][i] * g]]

AllZero(buf) == \A c \in DOMAIN buf : \A i \in DOMAIN buf[c] : buf[c][i] = 0

Loud(buf) == \E c \in DOMAIN buf : \E i \in DOMAIN buf[c] : buf[c][i] # 0

\* run_cfg, lines 1002-1009: output[0] takes input[0]; output[1] takes
\* input[1] of a stereo instance and input[0] of a mono-to-stereo one
Forward(inp) ==
  [c \in 1 .. chn_out |-> IF c = 1 THEN inp[1]
                          ELSE IF chn_in = 2 THEN inp[2] ELSE inp[1]]

apply_fixed_gain_relax(buf, g) == Scale(buf, CoefUnit)

\* run_cfg, lines 1012-1027: 1.0 leaves the forwarded samples alone, 0 clears
\* the outputs, any other coefficient multiplies
apply_fixed_gain(buf, g) ==
  IF g = CoefUnit THEN Scale(buf, CoefUnit)
  ELSE IF g = 0 THEN Fill(chn_out, Len(buf[1]), 0)
  ELSE Scale(buf, g)

\* coefficients strictly between the current one and the target
Between(cur, tgt) == {x \in 0 .. 2 * CoefUnit : (cur < x /\ x < tgt) \/ (tgt < x /\ x < cur)}

\* work_response has put an engine online; no code path takes it offline
engine_online ==
  /\ io_inst = "ok"
  /\ ~ io_online
  /\ io_online' = TRUE
  /\ UNCHANGED <<host_nominal, host_max, descriptor, io_inst, block_size, chn_in,
                 chn_out, buffered, db_dry, db_wet, dry_coeff, dry_target, output,
                 p_latency, io_cb, facade_vars, level_vars, st_vars, cv_vars, rc_vars, ext_vars>>

\* run, lines 403-454, as the run callback of the preset variants
run_audio ==
  /\ io_inst = "ok"
  /\ ~ IsCfg(descriptor)
  /\ \E n \in 1 .. MaxSamples : \E inp \in Buffers(chn_in, n) :
       /\ IF ~ io_online
            THEN p_latency' = 0 /\ output' = Fill(chn_out, n, 0)
            ELSE /\ p_latency' = artificial_latency + (IF buffered THEN latency ELSE 0)
                 /\ output' = Fill(chn_out, n, Wet)
       /\ io_cb' = [fn |-> "run", online |-> io_online, buffered |-> buffered,
                    fixed |-> FALSE, loud |-> Loud(inp)]
  /\ UNCHANGED <<host_nominal, host_max, descriptor, io_inst, block_size, chn_in,
                 chn_out, io_online, buffered, db_dry, db_wet, dry_coeff,
                 dry_target, facade_vars, level_vars, st_vars, cv_vars, rc_vars, ext_vars>>

\* run_cfg, lines 949-1057, the run callback of the configurable variants,
\* apart from the control messages; the three control ports are read first
run_cfg_audio ==
  /\ io_inst = "ok"
  /\ IsCfg(descriptor)
  /\ \E n \in 1 .. MaxSamples : \E inp \in Buffers(chn_in, n) :
     \E ctl0 \in BOOLEAN : \E dry \in DbVals : \E wet \in DbWetVals :
       LET changed == db_dry # dry \/ db_wet # wet
           tgt     == IF changed THEN db_to_coeff(dry) ELSE dry_target
           cur     == IF changed /\ io_online THEN tgt ELSE dry_coeff
       IN
       /\ buffered' = ctl0
       /\ db_dry' = dry
       /\ db_wet' = wet
       /\ dry_target' = tgt
       /\ IF io_online
            THEN \* run (), then line 995 stores the latency port again
                 /\ output' = Fill(chn_out, n, Wet)
                 /\ p_latency' = artificial_latency
                 /\ dry_coeff' = cur
                 /\ io_cb' = [fn |-> "run_cfg", online |-> TRUE, buffered |-> ctl0,
                              fixed |-> FALSE, loud |-> Loud(inp)]
            ELSE /\ p_latency' = 0
                 /\ IF cur = tgt
                      THEN /\ output' = apply_fixed_gain(Forward(inp), cur)
                           /\ dry_coeff' = cur
                           /\ io_cb' = [fn |-> "run_cfg", online |-> FALSE, buffered |-> ctl0,
                                        fixed |-> TRUE, loud |-> Loud(inp)]
                      ELSE \* one chunk of interpolation: the gain moves towards the
                           \* target without reaching it; within 1e-5 it settles
                           /\ \/ \E g \in Between(cur, tgt) :
                                   /\ output' = Scale(Forward(inp), g)
                                   /\ dry_coeff' = g
                              \/ /\ Between(cur, tgt) = {}
                                 /\ output' = Scale(Forward(inp), Max(cur, tgt))
                                 /\ dry_coeff' = tgt
                           /\ io_cb' = [fn |-> "run_cfg", online |-> FALSE, buffered |-> ctl0,
                                        fixed |-> FALSE, loud |-> Loud(inp)]
  /\ UNCHANGED <<host_nominal, host_max, descriptor, io_inst, block_size, chn_in,
                 chn_out, io_online, facade_vars, level_vars, st_vars, cv_vars, rc_vars, ext_vars>>

NextAudio == engine_online \/ run_audio \/ run_cfg_audio

\* an instance of any variant, as instantiate leaves it
InitAudioAny ==
  /\ InitInstance
  /\ InitState
  /\ InitConv /\ InitRc /\ InitExt
  /\ cv_args = NoArgs
  /\ host_nominal \in {MinBlock, 2 * MinBlock}
  /\ host_max = 0
  /\ descriptor \in Descriptors
  /\ io_inst = "ok"
  /\ block_size = ClampBlock(host_nominal)
  /\ chn_in = ChnIn(descriptor)
  /\ chn_out = ChnOut(descriptor)
  /\ io_online = FALSE
  /\ buffered = TRUE
  /\ db_dry = DbMin
  /\ db_wet = 0
  /\ dry_coeff = 0
  /\ dry_target = 0
  /\ output = <<>>
  /\ p_latency = 0
  /\ io_cb = NoCallback

SpecAudio == InitAudioAny /\ [][NextAudio]_vars

\* C13 as stated: a callback that finds no engine online writes only zeros to
\* every output channel, whatever the variant and the dry / wet settings.
C13_SilenceWithoutEngine ==
  (io_cb.fn # "none" /\ ~ io_cb.online) => AllZero(output)

\* C13: a callback that finds no engine online writes only zeros to every
\* output channel when it is run, and when it is run_cfg with the dry gain
\* resting at 0.
C13_SilenceWhenDryIsZero ==
  /\ (io_cb.fn = "run" /\ ~ io_cb.online) => AllZero(output)
  /\ (io_cb.fn = "run_cfg" /\ ~ io_cb.online /\ io_cb.fixed /\ dry_coeff = 0)
       => AllZero(output)

C13_Witness ==
  /\ io_cb.fn = "run_cfg" /\ ~ io_cb.online /\ io_cb.fixed /\ dry_coeff = 0
  /\ io_cb.loud /\ chn_out = 2 /\ AllZero(output)

\* C14: with an engine online the latency port holds nominal block +
\* artificial latency after a buffered callback and the artificial latency
\* alone after an unbuffered one, for run and for run_cfg.
C14_LatencyPort ==
  (io_cb.fn # "none" /\ io_cb.online) =>
    p_latency = artificial_latency + (IF io_cb.buffered THEN block_size ELSE 0)


\* Convproc (src/src/audiosrc.h): partition plan and lifecycle of one engine.
\* The limits and error codes come from zeta-convolver.h.

MINQUANT == 16
MAXQUANT == 8192
MINPART  == 64
MAXPART  == 8192
MAXDIVIS == 16
MAXINP   == 64
MAXOUT   == 64
BAD_STATE == -1
BAD_PARAM == -2

fft_cost == 5     \* Convproc::_fft_cost
mac_cost == 1     \* Convproc::_mac_cost

\* x & (x - 1) for an unsigned x: zero for 0 and for the powers of two
AndPred(x) == IF x = 0 \/ \E i \in 0 .. 20 : x = Pow2(i) THEN 0 ELSE 1

ParamsOK_nomax(a) ==
  ~ \/ a.ninp < 1 \/ a.ninp > MAXINP
    \/ a.nout < 1 \/ a.nout > MAXOUT
    \/ AndPred(a.quantum) # 0
    \/ a.quantum < MINQUANT
    \/ a.quantum > MAXQUANT
    \/ AndPred(a.minpart) # 0
    \/ a.minpart < MINPART
    \/ a.minpart < a.quantum
    \/ a.minpart > MAXDIVIS * a.quantum
    \/ AndPred(a.maxpart) # 0
    \/ a.maxpart < a.minpart

\* configure, lines 256-270: the parameter test
ParamsOK(a) ==
  ~ \/ a.ninp < 1 \/ a.ninp > MAXINP
    \/ a.nout < 1 \/ a.nout > MAXOUT
    \/ AndPred(a.quantum) # 0
    \/ a.quantum < MINQUANT
    \/ a.quantum > MAXQUANT
    \/ AndPred(a.minpart) # 0
    \/ a.minpart < MINPART
    \/ a.minpart < a.quantum
    \/ a.minpart > MAXDIVIS * a.quantum
    \/ AndPred(a.maxpart) # 0
    \/ a.maxpart > MAXPART
    \/ a.maxpart < a.minpart

\* lines 272-280: cfft and cmac; the density is the default 1 / min (ninp,
\* nout) or the full 1.0, so cmac is an integer
cfft(a) == fft_cost * (a.ninp + a.nout)
cmac(a) ==
  IF a.density = "default" THEN mac_cost * Max(a.ninp, a.nout)
                           ELSE mac_cost * a.ninp * a.nout

\* line 281
Step(a) == IF cfft(a) < 4 * cmac(a) THEN 1 ELSE 2

\* r & 0xAAAA: some odd-numbered bit below 16 is set in r
OddBits(r) == \E i \in {1, 3, 5, 7, 9, 11, 13, 15} : (r \div Pow2(i)) % 2 = 1

FirstShift_two(a) == IF Step(a) = 2 THEN 2 ELSE 1

\* lines 282-287: the first shift s
FirstShift(a) ==
  IF Step(a) = 2
    THEN IF OddBits(a.maxpart \div a.minpart) THEN 1 ELSE 2
    ELSE 1

\* lines 288, 317: nmin = (s == 1) ? 2 : 6
Nmin(sh) == IF sh = 1 THEN 2 ELSE 6

FirstSize_quantum(a) == [size |-> a.quantum, prio |-> 0]

\* lines 292-297: size starts at the quantum and doubles up to minpart, the
\* priority drops by one per doubling
FirstSize(a) ==
  LET RECURSIVE Grow(_, _)
      Grow(size, prio) == IF size < a.minpart THEN Grow(2 * size, prio - 1)
                          ELSE [size |-> size, prio |-> prio]
  IN Grow(a.quantum, 0)

\* lines 300-320: the loop that creates the levels
RECURSIVE PlanLoop(_, _, _, _, _, _)
PlanLoop(a, offs, size, sh, nmin, prio) ==
  IF ~ (offs < a.maxsize) THEN <<>>
  ELSE
    LET all  == (a.maxsize - offs + size - 1) \div size
        r    == Pow2(sh)
        d0   == all - nmin
        d    == d0 - (d0 + r - 1) \div r
        npar == IF size < a.maxpart /\ all > nmin /\ cfft(a) < d * cmac(a)
                  THEN nmin ELSE all
        lev  == [prio |-> prio, offs |-> offs, npar |-> npar, size |-> size]
        next == offs + size * npar
    IN IF next < a.maxsize
         THEN <<lev>> \o PlanLoop(a, next, size * r, Step(a), Nmin(Step(a)), prio - sh)
         ELSE <<lev>>

Plan(a) ==
  LET sh0  == FirstShift(a)
      nmin == Nmin(sh0) + (IF a.minpart = a.quantum THEN 1 ELSE 0)
      f    == FirstSize(a)
  IN PlanLoop(a, 0, f.size, sh0, nmin, f.prio)

NLevels == Len(cv_plan)

\* Convproc::configure, lines 241-342, without allocation failures
configure ==
  /\ cv_pc = "idle"
  /\ cv_call' = [op |-> "configure", force |-> FALSE, from |-> cv_state,
                 seq |-> 1 - cv_call.seq]
  /\ IF cv_state # "IDLE"
       THEN /\ cv_rv' = BAD_STATE
            /\ UNCHANGED <<cv_state, cv_cfg, cv_plan, cv_stat, cv_thr>>
       ELSE IF ~ ParamsOK(cv_args)
         THEN /\ cv_rv' = BAD_PARAM
              /\ UNCHANGED <<cv_state, cv_cfg, cv_plan, cv_stat, cv_thr>>
         ELSE LET plan == Plan(cv_args)
                  last == IF plan = <<>> THEN FirstSize(cv_args).size
                          ELSE plan[Len(plan)].size
              IN /\ cv_plan' = plan
                 /\ cv_stat' = [k \in DOMAIN plan |-> "IDLE"]
                 /\ cv_thr' = [k \in DOMAIN plan |-> "none"]
                 /\ cv_cfg' = [ninp |-> cv_args.ninp, nout |-> cv_args.nout,
                               quantum |-> cv_args.quantum,
                               minpart |-> cv_args.minpart,
                               maxpart |-> last, inpsize |-> 2 * last]
                 /\ cv_state' = "STOP"
                 /\ cv_rv' = 0
  /\ UNCHANGED <<cv_args, cv_imp, cv_pc, cv_next,
                 cv_hist,
                 facade_vars, level_vars, st_vars, io_vars, rc_vars, ext_vars>>

\* Convproc::impdata_create, lines 345-370, without allocation failures
impdata_create ==
  /\ cv_pc = "idle"
  /\ \E inp \in 0 .. 2 : \E out \in 0 .. 2 :
       /\ cv_call' = [op |-> "impdata_create", force |-> FALSE, from |-> cv_state,
                      seq |-> 1 - cv_call.seq]
       /\ IF cv_state # "STOP"
            THEN cv_rv' = BAD_STATE /\ UNCHANGED cv_imp
            ELSE IF inp >= cv_cfg.ninp \/ out >= cv_cfg.nout
              THEN cv_rv' = BAD_PARAM /\ UNCHANGED cv_imp
              ELSE cv_rv' = 0 /\ cv_imp' = cv_imp \cup {<<inp, out>>}
  /\ UNCHANGED <<cv_args, cv_state, cv_cfg, cv_plan, cv_stat, cv_thr, cv_pc,
                 cv_next, cv_hist,
                 facade_vars, level_vars, st_vars, io_vars, rc_vars, ext_vars>>

FirstThreaded_swapped == IF cv_cfg.minpart = cv_cfg.quantum THEN 0 ELSE 1

\* restart_process line 445 and check_started: the first level with a thread
FirstThreaded == IF cv_cfg.minpart = cv_cfg.quantum THEN 1 ELSE 0

\* Convproc::start_process, lines 407-413, and restart_process up to the
\* start loop, lines 416-443 (the state is ST_STOP)
start_process ==
  /\ cv_pc = "idle"
  /\ cv_call' = [op |-> "start_process", force |-> FALSE, from |-> cv_state,
                 seq |-> 1 - cv_call.seq]
  /\ IF cv_state # "STOP"
       THEN cv_rv' = BAD_STATE /\ UNCHANGED <<cv_pc, cv_next>>
       ELSE /\ cv_pc' = "starting"
            /\ cv_next' = FirstThreaded
            /\ UNCHANGED cv_rv
  /\ UNCHANGED <<cv_args, cv_state, cv_cfg, cv_plan, cv_stat, cv_imp, cv_thr,
                 cv_hist,
                 facade_vars, level_vars, st_vars, io_vars, rc_vars, ext_vars>>

\* restart_process, lines 445-451: Convlevel::start creates the thread of
\* level k (levels are numbered from 0 in the code, from 1 in cv_plan)
level_start ==
  /\ cv_pc = "starting"
  /\ IF cv_next < NLevels
       THEN /\ cv_thr' = [cv_thr EXCEPT ![cv_next + 1] = "created"]
            /\ cv_next' = cv_next + 1
            /\ UNCHANGED cv_pc
       ELSE /\ cv_pc' = "polling"
            /\ UNCHANGED <<cv_thr, cv_next>>
  /\ UNCHANGED <<cv_args, cv_state, cv_cfg, cv_plan, cv_stat, cv_imp, cv_call,
                 cv_rv, cv_hist,
                 facade_vars, level_vars, st_vars, io_vars, rc_vars, ext_vars>>

\* check_stop, line 584: every level is in ST_IDLE
AllIdle == \A k \in DOMAIN cv_stat : cv_stat[k] = "IDLE"

\* restart_process, lines 446-447: Convlevel::start returns false for level
\* k (pthread_create failed, lines 804-816) and stop_process (true) stops
\* every level that is not idle
start_failed ==
  /\ cv_pc = "starting"
  /\ cv_next < NLevels
  /\ cv_stat' = [k \in DOMAIN cv_stat |-> LevelStop(cv_stat[k])]
  /\ cv_state' = "WAIT"
  /\ cv_pc' = "failed"
  /\ UNCHANGED <<cv_args, cv_cfg, cv_plan, cv_imp, cv_thr, cv_next, cv_call,
                 cv_rv, cv_hist,
                 facade_vars, level_vars, st_vars, io_vars, rc_vars, ext_vars>>

\* restart_process, lines 448-449: cleanup () waits until check_stop sees every
\* level idle, deletes the levels and the call returns BAD_STATE; a thread
\* that was created and has not yet run Convlevel::main is left behind
failed_cleanup ==
  /\ cv_pc = "failed"
  /\ AllIdle
  /\ cv_orphans' = (cv_orphans \/ \E k \in DOMAIN cv_thr : cv_thr[k] = "created")
  /\ cv_state' = "IDLE"
  /\ cv_cfg' = ZeroCfg
  /\ cv_plan' = <<>>
  /\ cv_stat' = <<>>
  /\ cv_thr' = <<>>
  /\ cv_imp' = {}
  /\ cv_rv' = BAD_STATE
  /\ cv_pc' = "idle"
  /\ UNCHANGED <<cv_args, cv_next, cv_call, cv_uaf,
                 facade_vars, level_vars, st_vars, io_vars, rc_vars, ext_vars>>

\* Convlevel::static_main, lines 912-913, of a thread left behind: main ()
\* runs on the deleted level
orphan_main ==
  /\ cv_orphans
  /\ cv_uaf' = TRUE
  /\ UNCHANGED <<cv_args, cv_state, cv_cfg, cv_plan, cv_stat, cv_imp, cv_thr,
                 cv_pc, cv_next, cv_call, cv_rv, cv_orphans,
                 facade_vars, level_vars, st_vars, io_vars, rc_vars, ext_vars>>

check_started_from_any(k) == TRUE

\* Convproc::check_started, lines 573-577
check_started_from(k) ==
  \/ NLevels = 0
  \/ \A j \in k + 1 .. NLevels : cv_stat[j] = "PROC"

\* restart_process, lines 453-459: poll until every thread runs, then ST_PROC
poll_started ==
  /\ cv_pc = "polling"
  /\ check_started_from(FirstThreaded)
  /\ cv_state' = "PROC"
  /\ cv_rv' = 0
  /\ cv_pc' = "idle"
  /\ UNCHANGED <<cv_args, cv_cfg, cv_plan, cv_stat, cv_imp, cv_thr, cv_next,
                 cv_call, cv_hist,
                 facade_vars, level_vars, st_vars, io_vars, rc_vars, ext_vars>>

\* Convlevel::main, line 922: the new thread sets _stat = ST_PROC
thread_main(k) ==
  /\ cv_thr[k] = "created"
  /\ cv_thr' = [cv_thr EXCEPT ![k] = "running"]
  /\ cv_stat' = [cv_stat EXCEPT ![k] = "PROC"]
  /\ UNCHANGED <<cv_args, cv_state, cv_cfg, cv_plan, cv_imp, cv_pc, cv_next,
                 cv_call, cv_rv, cv_hist,
                 facade_vars, level_vars, st_vars, io_vars, rc_vars, ext_vars>>

\* Convlevel::main, lines 924-930: woken by stop, the thread goes idle and ends
thread_term(k) ==
  /\ cv_thr[k] = "running"
  /\ cv_stat[k] = "TERM"
  /\ cv_thr' = [cv_thr EXCEPT ![k] = "exited"]
  /\ cv_stat' = [cv_stat EXCEPT ![k] = "IDLE"]
  /\ UNCHANGED <<cv_args, cv_state, cv_cfg, cv_plan, cv_imp, cv_pc, cv_next,
                 cv_call, cv_rv, cv_hist,
                 facade_vars, level_vars, st_vars, io_vars, rc_vars, ext_vars>>

StopAllowed_always(st, force) == TRUE

\* stop_process, line 528
StopAllowed(st, force) == st = "PROC" \/ force

\* Convproc::stop_process, lines 524-536
stop_process_call ==
  /\ cv_pc = "idle"
  /\ \E force \in BOOLEAN :
       /\ cv_call' = [op |-> "stop_process", force |-> force, from |-> cv_state,
                      seq |-> 1 - cv_call.seq]
       /\ IF ~ StopAllowed(cv_state, force)
            THEN cv_rv' = BAD_STATE /\ UNCHANGED <<cv_state, cv_stat>>
            ELSE /\ cv_stat' = [k \in DOMAIN cv_stat |-> LevelStop(cv_stat[k])]
                 /\ cv_state' = "WAIT"
                 /\ cv_rv' = 0
  /\ UNCHANGED <<cv_args, cv_cfg, cv_plan, cv_imp, cv_thr, cv_pc, cv_next,
                 cv_hist,
                 facade_vars, level_vars, st_vars, io_vars, rc_vars, ext_vars>>

\* Convproc::check_stop, lines 580-590
check_stop_call ==
  /\ cv_pc = "idle"
  /\ cv_call' = [op |-> "check_stop", force |-> FALSE, from |-> cv_state,
                 seq |-> 1 - cv_call.seq]
  /\ IF AllIdle
       THEN cv_state' = "STOP" /\ cv_rv' = 1
       ELSE cv_rv' = 0 /\ UNCHANGED cv_state
  /\ UNCHANGED <<cv_args, cv_cfg, cv_plan, cv_stat, cv_imp, cv_thr, cv_pc,
                 cv_next, cv_hist,
                 facade_vars, level_vars, st_vars, io_vars, rc_vars, ext_vars>>

\* Convproc::cleanup, lines 539-570: waits for check_stop, then frees the
\* buffers and the levels
cleanup ==
  /\ cv_pc = "idle"
  /\ AllIdle
  /\ cv_call' = [op |-> "cleanup", force |-> FALSE, from |-> cv_state,
                 seq |-> 1 - cv_call.seq]
  /\ cv_state' = "IDLE"
  /\ cv_cfg' = ZeroCfg
  /\ cv_plan' = <<>>
  /\ cv_stat' = <<>>
  /\ cv_thr' = <<>>
  /\ cv_imp' = {}
  /\ cv_rv' = 0
  /\ UNCHANGED <<cv_args, cv_pc, cv_next,
                 cv_hist,
                 facade_vars, level_vars, st_vars, io_vars, rc_vars, ext_vars>>

\* the owner configures, and may clean up and configure again
NextPlan == configure \/ cleanup

\* the engine's whole lifecycle
NextConv ==
  \/ configure \/ impdata_create \/ start_process \/ level_start \/ poll_started
  \/ start_failed \/ failed_cleanup \/ orphan_main
  \/ stop_process_call \/ check_stop_call \/ cleanup
  \/ \E k \in DOMAIN cv_thr : thread_main(k)
  \/ \E k \in DOMAIN cv_thr : thread_term(k)

QuantVals   == {0, MINQUANT \div 2, MINQUANT, 48, MINPART, 2 * MINPART, MAXQUANT,
                2 * MAXQUANT}
MinpartVals == {MINPART \div 2, MINPART, 96, 2 * MINPART, 4 * MINPART, 2048, MAXPART}
MaxpartVals == {0, MINPART, 2 * MINPART, 192, 512, 1024, MAXPART, 2 * MAXPART}
SizeVals    == {0, 1, 64, 65, 1000, 6000, 50000, 200000}
ChanVals    == {<<0, 1>>, <<1, 1>>, <<1, 2>>, <<2, 2>>, <<4, 4>>, <<MAXINP + 1, 1>>}

ConvArgs ==
  {[ninp |-> c[1], nout |-> c[2], maxsize |-> m, quantum |-> q, minpart |-> p,
    maxpart |-> x, density |-> d] :
     c \in ChanVals, m \in SizeVals, q \in QuantVals, p \in MinpartVals,
     x \in MaxpartVals, d \in {"default", "full"}}

\* a few valid configurations of one to three levels
LifeArgs ==
  {[ninp |-> 1, nout |-> 1, maxsize |-> m, quantum |-> MINPART, minpart |-> p,
    maxpart |-> 8 * MINPART, density |-> "default"] :
     m \in {0, 100, 3000}, p \in {MINPART, 2 * MINPART}}

InitPlan ==
  /\ InitInstance /\ InitState /\ InitAudio /\ InitConv /\ InitRc /\ InitExt
  /\ cv_args \in ConvArgs

InitLife ==
  /\ InitInstance /\ InitState /\ InitAudio /\ InitConv /\ InitRc /\ InitExt
  /\ cv_args \in LifeArgs

SpecPlan == InitPlan /\ [][NextPlan]_vars

SpecConv == InitLife /\ [][NextConv]_vars

WrongState(op, force, st) ==
  \/ op = "configure" /\ st # "IDLE"
  \/ op = "impdata_create" /\ st # "STOP"
  \/ op = "start_process" /\ st # "STOP"
  \/ op = "stop_process" /\ ~ force /\ st # "PROC"

\* C16: configure outside IDLE, impdata_create outside STOP, start_process
\* outside STOP and stop_process without force outside PROC return BAD_STATE
\* and leave the engine state, levels, buffers and counters as they were.
C16_WrongStateNoChange ==
  [][(cv_call'.seq # cv_call.seq /\ WrongState(cv_call'.op, cv_call'.force, cv_state))
       => /\ cv_rv' = BAD_STATE
          /\ UNCHANGED <<cv_state, cv_cfg, cv_plan, cv_stat, cv_imp, cv_thr, cv_pc,
                         cv_next>>]_vars

C16_Witness ==
  /\ cv_call.op = "stop_process" /\ ~ cv_call.force /\ cv_call.from = "STOP"
  /\ cv_rv = BAD_STATE /\ cv_state = "STOP" /\ NLevels > 1

IsPow2(n) == \E i \in 0 .. 20 : n = Pow2(i)

\* invariant I1 of the parameters
I1(a) ==
  /\ a.quantum <= a.minpart /\ a.minpart <= a.maxpart /\ a.maxpart <= MAXPART
  /\ IsPow2(a.quantum) /\ IsPow2(a.minpart) /\ IsPow2(a.maxpart)

\* C17: configure called in IDLE with parameters that break I1 returns
\* BAD_PARAM, creates no level, allocates no buffer and leaves the state IDLE.
C17_BadParam ==
  (cv_call.op = "configure" /\ cv_call.from = "IDLE" /\ ~ I1(cv_args)) =>
    /\ cv_rv = BAD_PARAM
    /\ cv_plan = <<>>
    /\ cv_cfg = ZeroCfg
    /\ cv_state = "IDLE"

C17_Witness ==
  /\ cv_call.op = "configure" /\ cv_call.from = "IDLE" /\ cv_rv = BAD_PARAM
  /\ cv_args.maxpart > MAXPART /\ IsPow2(cv_args.maxpart)
  /\ IsPow2(cv_args.quantum) /\ cv_args.quantum <= cv_args.minpart

Configured == cv_call.op = "configure" /\ cv_call.from = "IDLE" /\ cv_rv = 0

RECURSIVE Covered(_, _)
Covered(plan, k) ==
  IF k = 0 THEN 0 ELSE Covered(plan, k - 1) + plan[k].npar * plan[k].size

\* C18: after a successful configure every level's partition size is a power
\* of two within [minpart, maxpart], the sizes strictly increase, every offset
\* is the sum of npar * size over the earlier levels, and the levels together
\* cover at least maxsize.
C18_PlanInvariants ==
  Configured =>
    /\ \A k \in DOMAIN cv_plan :
         /\ IsPow2(cv_plan[k].size)
         /\ cv_args.minpart <= cv_plan[k].size
         /\ cv_plan[k].size <= cv_args.maxpart
         /\ cv_plan[k].offs = Covered(cv_plan, k - 1)
         /\ k > 1 => cv_plan[k - 1].size < cv_plan[k].size
    /\ Covered(cv_plan, NLevels) >= cv_args.maxsize

C18_Witness ==
  /\ Configured /\ NLevels >= 3
  /\ cv_plan[NLevels].size = cv_args.maxpart
  /\ cv_plan[2].size = 2 * cv_plan[1].size

\* C19 as stated: after a successful configure the first level's partition
\* size equals the quantum.
C19_FirstIsQuantum ==
  (Configured /\ NLevels > 0) => cv_plan[1].size = cv_args.quantum

\* C19: after a successful configure the first level's partition size equals
\* minpart, which is the quantum when minpart = quantum.
C19_FirstIsMinpart ==
  (Configured /\ NLevels > 0) => cv_plan[1].size = cv_args.minpart

C19_Witness ==
  /\ Configured /\ NLevels > 0
  /\ cv_args.minpart > cv_args.quantum
  /\ cv_plan[1].size = cv_args.minpart

Threaded == {k \in DOMAIN cv_plan : cv_plan[k].size > cv_cfg.quantum}

\* C20: start_process in STOP starts a worker for exactly the levels whose
\* partition size exceeds the quantum; the engine becomes PROC only after
\* each of them has set its own state to PROC, and in PROC no started worker
\* is still in its initial IDLE state.
C20_StartHandshake ==
  /\ [](cv_state = "PROC" => \A k \in DOMAIN cv_thr : cv_thr[k] # "created")
  /\ [][(cv_state # "PROC" /\ cv_state' = "PROC") =>
          /\ {k \in DOMAIN cv_thr' : cv_thr'[k] # "none"} = Threaded'
          /\ \A k \in Threaded' : cv_stat'[k] = "PROC" /\ cv_thr'[k] = "running"]_vars

C20_Witness ==
  /\ cv_state = "PROC" /\ cv_call.op = "start_process"
  /\ NLevels >= 2 /\ Threaded # {} /\ Threaded # DOMAIN cv_plan

\* a thread of level k exists and has not returned from Convlevel::main
Alive(k) == cv_thr[k] \in {"created", "running"}

C26_NoWorkerAfterCleanup == ~ cv_orphans /\ ~ cv_uaf

\* ---------------------------------------------------------------------
\* Convolver::reconfigure: the channel map and the impulse load

\* Convolver::n_inputs and n_outputs
n_inputs(irc)  == IF irc = "Stereo" THEN 2 ELSE 1
n_outputs(irc) == IF irc = "Mono" THEN 1 ELSE 2

\* reconfigure, lines 201-204: the smallest power of two, at least 2, that is
\* not below the block size
NextPow2(b) ==
  LET RECURSIVE Up(_)
      Up(p) == IF Pow2(p) < b THEN Up(p + 1) ELSE Pow2(p)
  IN Up(1)

\* reconfigure, lines 197-219: the arguments of Convproc::configure
LoadArgs(in) ==
  LET q == IF in.threaded THEN ThreadedQuantum ELSE NextPow2(in.block) IN
    [ninp |-> n_inputs(in.irc), nout |-> n_outputs(in.irc), maxsize |-> in.len,
     quantum |-> q, minpart |-> q,
     maxpart |-> (IF in.threaded THEN MAXPART ELSE q), density |-> "default"]

\* lines 234-239: a third channel is ignored in Stereo
n_chn(in) == IF in.irc = "Stereo" /\ in.n_chn = 3 THEN 2 ELSE in.n_chn

\* lines 233 and 240-243: no cross-over with at most two channels
n_imp(in) ==
  IF in.irc = "Stereo" /\ n_chn(in) <= 2 THEN 2
  ELSE n_inputs(in.irc) * n_outputs(in.irc)

\* lines 259-260
ir_c(in, c) == c % n_chn(in)
io_o(in, c) == c % n_outputs(in.irc)

io_i_cross(in, c) == (c \div n_outputs(in.irc)) % n_inputs(in.irc)

\* lines 263-275
io_i(in, c) ==
  IF n_imp(in) = 2 /\ in.irc = "Stereo" THEN c % n_inputs(in.irc)
  ELSE (c \div n_outputs(in.irc)) % n_inputs(in.irc)

\* lines 282-283
chan_gain(in, c)  == in.irs.gain * in.irs.channel_gain[c + 1]
chan_delay(in, c) == in.irs.pre_delay + in.irs.channel_delay[c + 1]

Skipped_never(g) == FALSE

\* lines 294-296: if (chan_gain == 0.f) continue
Skipped(g) == g = 0

\* Convlevel::impdata_write, audiosrc.h lines 669-711: of the samples handed
\* over for positions i0 .. i1 - 1 the level stores those that fall into its
\* partitions, [_offs, _offs + _npar * _parsize), and drops the others
impdata_write(lev, i0, i1) ==
  {q \in i0 .. i1 - 1 : lev.offs <= q /\ q < lev.offs + lev.npar * lev.size}

\* Convproc::impdata_create, audiosrc.h lines 361-364: every level is offered
\* the samples
Stored(plan, i0, i1) ==
  UNION {impdata_write(plan[l], i0, i1) : l \in DOMAIN plan}

\* reconfigure, lines 259-334: what is loaded for slot c; the read loop hands
\* over the whole IR at chan_delay + pos
LoadOf(in, plan, c) ==
  [ir |-> ir_c(in, c), inp |-> io_i(in, c), out |-> io_o(in, c),
   gain |-> chan_gain(in, c), delay |-> chan_delay(in, c),
   at |-> Stored(plan, chan_delay(in, c), chan_delay(in, c) + in.len)]

\* the k-th sample of an IR channel, a non-zero stand-in value
Sample(k) == k + 1

\* TimeDomainConvolver::configure, lines 92-96: to_read = min (64, delay),
\* then min (to_read, max_len - delay) if delay < max_len
ToRead(delay, len) ==
  LET t == IF TdcTaps < delay THEN TdcTaps ELSE delay
  IN IF delay < len THEN (IF t < len - delay THEN t ELSE len - delay) ELSE t

\* TimeDomainConvolver::configure, lines 87-107: the table after the call;
\* read () delivers at most the IR's length and stores it from _ir [delay] on,
\* and the taps from delay on are multiplied by gain
TdcTable(len, gain, delay) ==
  IF delay >= TdcTaps \/ ToRead(delay, len) = 0 THEN TdcReset.ir
  ELSE LET ns == IF ToRead(delay, len) < len THEN ToRead(delay, len) ELSE len
       IN [at |-> delay,
           n |-> IF delay + ns > TdcTaps THEN TdcTaps - delay ELSE ns,
           gain |-> gain]

\* the read at line 101 runs past _ir [63], into the objects that follow
\* (the next convolver's _enabled and _ir): any _enabled may end up set
TdcOverflow(len, delay) ==
  /\ delay < TdcTaps
  /\ ToRead(delay, len) > 0
  /\ delay + (IF ToRead(delay, len) < len THEN ToRead(delay, len) ELSE len) > TdcTaps

\* Convolver::reconfigure, lines 188-339, without allocation failures
reconfigure ==
  /\ rc_pc = "new"
  /\ LET a    == LoadArgs(rc_in)
         rv   == IF ParamsOK(a) THEN 0 ELSE BAD_PARAM
         plan == IF rv = 0 THEN Plan(a) ELSE <<>>
         cs   == IF rv = 0
                   THEN {c \in 0 .. n_imp(rc_in) - 1 : ~ Skipped(chan_gain(rc_in, c))}
                   ELSE {}
     IN /\ rc_rv' = rv
        /\ rc_plan' = plan
        /\ rc_imp' = {LoadOf(rc_in, plan, c) : c \in cs}
        /\ rc_tdc' = {[idx |-> io_i(rc_in, c) * 2 + io_o(rc_in, c),
                       delay |-> chan_delay(rc_in, c)] : c \in cs}
        /\ \E en \in SUBSET (IF \E c \in cs : TdcOverflow(rc_in.len, chan_delay(rc_in, c))
                                THEN 0 .. 3 ELSE {}) :
             rc_tab' = [i \in 0 .. 3 |->
               IF \E c \in cs : io_i(rc_in, c) * 2 + io_o(rc_in, c) = i
                 THEN LET c == CHOOSE c \in cs : io_i(rc_in, c) * 2 + io_o(rc_in, c) = i
                      IN [enabled |-> i \in en,
                          ir |-> TdcTable(rc_in.len, chan_gain(rc_in, c),
                                          chan_delay(rc_in, c))]
                 ELSE [TdcReset EXCEPT !.enabled = i \in en]]
  /\ rc_pc' = "done"
  /\ UNCHANGED <<rc_in, facade_vars, level_vars, st_vars, io_vars, cv_vars, ext_vars>>

NextLoad == reconfigure

MaxChn == 4     \* channels of the IR file

IRChannelConfigs == {"Mono", "MonoToStereo", "Stereo"}
LoadLens   == {1, 100, 200}
LoadModes  == {<<TRUE, 64>>, <<FALSE, 64>>, <<FALSE, 1024>>}
GainVecs   == [1 .. 4 -> {0, 1}]
PreDelays  == {0, 30, 100}
ChanDelays == {<<0, 0, 0, 0>>, <<0, 40, 0, 7>>}

\* an IR of one to MaxChn channels, any channel configuration and settings
InitLoad ==
  /\ InitInstance /\ InitState /\ InitAudio /\ InitConv /\ cv_args = NoArgs
  /\ InitExt
  /\ rc_in \in {[irc |-> i, n_chn |-> n, len |-> l, threaded |-> m[1], block |-> m[2],
                 irs |-> [DefaultIRSettings EXCEPT !.gain = g, !.channel_gain = cg,
                                                   !.pre_delay = pd,
                                                   !.channel_delay = cd]] :
                  i \in IRChannelConfigs, n \in 1 .. MaxChn, l \in LoadLens,
                  m \in LoadModes, g \in {0, 1}, cg \in GainVecs, pd \in PreDelays,
                  cd \in ChanDelays}
  /\ rc_pc = "new"
  /\ rc_rv = 0
  /\ rc_plan = <<>>
  /\ rc_imp = {}
  /\ rc_tdc = {}
  /\ rc_tab = [i \in 0 .. 3 |-> TdcReset]

SpecLoad == InitLoad /\ [][NextLoad]_vars

\* the channel map documented in reconfigure, lines 220-231
Expected(irc, n) ==
  IF irc = "Mono" THEN {<<0, 0, 0>>}
  ELSE IF irc = "MonoToStereo"
    THEN {<<0, 0, 0>>, <<(IF n = 1 THEN 0 ELSE 1), 0, 1>>}
  ELSE IF n <= 3
    THEN {<<0, 0, 0>>, <<(IF n = 1 THEN 0 ELSE 1), 1, 1>>}
  ELSE {<<0, 0, 0>>, <<1, 0, 1>>, <<2, 1, 0>>, <<3, 1, 1>>}

Slots == 0 .. n_imp(rc_in) - 1

C29_ZeroGainSkipped ==
  rc_pc = "done" =>
    \A c \in Slots :
      LET i == io_i(rc_in, c)
          o == io_o(rc_in, c)
      IN IF chan_gain(rc_in, c) = 0
           THEN /\ ~ \E e \in rc_imp : e.inp = i /\ e.out = o
                /\ ~ \E t \in rc_tdc : t.idx = i * 2 + o
           ELSE /\ \E e \in rc_imp :
                     /\ e.inp = i /\ e.out = o /\ e.ir = ir_c(rc_in, c)
                     /\ e.gain = chan_gain(rc_in, c)
                     /\ e.delay = chan_delay(rc_in, c)
                /\ \E t \in rc_tdc : t.idx = i * 2 + o

C29_Witness ==
  /\ rc_pc = "done"
  /\ \E c \in Slots : chan_gain(rc_in, c) = 0
  /\ rc_imp # {}

\* C30: every sample k of an IR of length L loaded with delay d is stored at
\* position d + k in some partition of the plan
C30_NoSampleLost ==
  rc_pc = "done" =>
    \A e \in rc_imp : e.at = {e.delay + k : k \in 0 .. rc_in.len - 1}

\* ---------------------------------------------------------------------
\* Convproc::reset

MaxResets == 3     \* reset calls in a row

LevelReset_turn(l, inpsize, outsize) ==
  [l EXCEPT !.ffta = <<0, 0>>, !.buff = <<0, 0>>, !.wait = 0, !.ptind = 0,
            !.opind = (l.opind + 1) % 3, !.trig = 0, !.done = 0]

\* Convlevel::reset, audiosrc.h lines 734-770: the FFT history and the three
\* output buffers are zeroed, the offsets and counters set, the semaphores
\* initialised
LevelReset(l, inpsize, outsize) ==
  [l EXCEPT !.ffta = <<0, 0>>, !.buff = <<0, 0>>,
            !.outoffs = IF l.parsize = outsize THEN 0 ELSE l.parsize \div 2,
            !.inpoffs = IF l.parsize = outsize THEN 0 ELSE inpsize - l.parsize \div 2,
            !.bits = l.parsize \div outsize,
            !.wait = 0, !.ptind = 0, !.opind = 0, !.trig = 0, !.done = 0]

\* Convproc::reset, audiosrc.h lines 387-403, called with no level in the
\* middle of a cycle
reset ==
  /\ rs_n < MaxResets
  /\ rs_n' = rs_n + 1
  /\ rs_eng' = IF rs_eng.state = "IDLE" THEN rs_eng
               ELSE [rs_eng EXCEPT !.inpbuff = <<0, 0>>, !.outbuff = <<0, 0>>,
                                   !.lev = LevelReset(rs_eng.lev, rs_eng.inpsize,
                                                      rs_eng.minpart)]
  /\ rs_first' = IF rs_n = 0 THEN rs_eng' ELSE rs_first
  /\ UNCHANGED <<rs_rest, base_vars>>

Bufs == [1 .. 2 -> {0, 1}]

\* any engine: state, buffer contents, offsets, counters and semaphores
InitAnyEngine ==
  /\ InitBase
  /\ rs_eng \in {[state |-> st, minpart |-> MINPART, inpsize |-> 2 * ps,
                  inpoffs |-> io, outoffs |-> 0, inpbuff |-> b[1], outbuff |-> b[2],
                  lev |-> [parsize |-> ps, ffta |-> b[3], buff |-> b[4],
                           outoffs |-> w[1] * (ps \div 2), inpoffs |-> w[2] * MINPART,
                           bits |-> ps \div MINPART, wait |-> w[1], ptind |-> w[2],
                           opind |-> op, trig |-> w[2], done |-> w[1]]] :
                   st \in {"IDLE", "STOP", "PROC", "WAIT"}, ps \in {MINPART, 2 * MINPART},
                   io \in {0, MINPART}, b \in [1 .. 4 -> {<<0, 0>>, <<1, 0>>, <<1, 1>>}],
                   w \in [1 .. 2 -> {0, 1}], op \in 0 .. 2}
  /\ rs_first = NoConvproc
  /\ rs_n = 0
  /\ InitBuffered /\ InitChunks /\ InitSwaps /\ InitDelay

SpecReset == InitAnyEngine /\ [][reset]_vars

\* C31: in any state but IDLE, the engine after a second (or later) reset in a
\* row equals the engine after the first, and after a reset the input
\* buffers, the output accumulators, the level's FFT history and output ring
\* are zero and its counters and semaphores are cleared
C31_ResetIdempotent ==
  (rs_n >= 1 /\ rs_eng.state # "IDLE") =>
    /\ rs_eng = rs_first
    /\ rs_eng.inpbuff = <<0, 0>> /\ rs_eng.outbuff = <<0, 0>>
    /\ rs_eng.lev.ffta = <<0, 0>> /\ rs_eng.lev.buff = <<0, 0>>
    /\ rs_eng.lev.wait = 0 /\ rs_eng.lev.ptind = 0 /\ rs_eng.lev.opind = 0
    /\ rs_eng.lev.trig = 0 /\ rs_eng.lev.done = 0

C31_Witness == rs_n >= 2 /\ rs_eng.state = "PROC" /\ rs_eng.lev.outoffs # 0

\* ---------------------------------------------------------------------
\* Convolver::run_buffered_mono / run_buffered_stereo: the block loop

MaxCalls == 3     \* run_buffered calls in a row

Chunk_all(remain, room) == remain

\* part_006 line 414 and 449: ns = std::min (remain, _n_samples - _offset)
Chunk(remain, room) == IF remain < room THEN remain ELSE room

\* lines 413-439 and 448-479: the while loop; every chunk advances _offset,
\* a full block calls Convproc::process and sets _offset to 0
RECURSIVE BlockLoop(_, _, _, _)
BlockLoop(n, offset, procs, remain) ==
  IF ~ (remain > 0) THEN [offset |-> offset, procs |-> procs]
  ELSE LET ns == Chunk(remain, n - offset) IN
         IF offset + ns = n THEN BlockLoop(n, 0, procs + 1, remain - ns)
                            ELSE BlockLoop(n, offset + ns, procs, remain - ns)

BlockLens == {0, 1, 7, 63, 64, 65, 100, 128, 150}

\* run_buffered_mono / run_buffered_stereo with any n_samples
run_buffered ==
  /\ bf_calls < MaxCalls
  /\ \E len \in BlockLens :
       LET r == BlockLoop(bf_n, bf_offset, bf_procs, len) IN
         /\ bf_offset' = r.offset
         /\ bf_procs' = r.procs
         /\ bf_total' = bf_total + len
  /\ bf_calls' = bf_calls + 1
  /\ UNCHANGED <<bf_n, bf_rest, base_vars>>

\* reconfigure has set _n_samples and _offset = 0
InitBlocks ==
  /\ InitBase /\ InitReset /\ InitChunks /\ InitSwaps /\ InitDelay
  /\ bf_n \in {ThreadedQuantum, 2 * ThreadedQuantum}
  /\ bf_offset = 0
  /\ bf_procs = 0
  /\ bf_total = 0
  /\ bf_calls = 0

SpecBlocks == InitBlocks /\ [][run_buffered]_vars

\* C32: after every run_buffered call 0 <= _offset < _n_samples, and
\* Convproc::process has been called once for every _n_samples samples handed
\* in so far, however they were split into calls
C32_AnyBlockSplit ==
  /\ 0 <= bf_offset /\ bf_offset < bf_n
  /\ bf_procs = bf_total \div bf_n
  /\ bf_offset = bf_total % bf_n

C32_Witness ==
  /\ bf_calls = 3 /\ bf_procs = 2 /\ bf_offset = 22 /\ bf_n = ThreadedQuantum

\* a step of the audio thread inside Convproc::tailonly
TailStep ==
  \/ au_pc = "idle" /\ au_pc' \in {"tail_wait", "tail_mix"}
  \/ au_pc \in {"tail_wait", "tail_mix"} /\ (au_pc' # au_pc \/ lv_wait' # lv_wait)

\* C33: while the worker is inside process () the audio thread's readout and
\* readtail read an output buffer that is none of the two the worker writes;
\* _opind stays in 0 .. 2 and, while the engine is processing, changes only in
\* readout, by one step modulo three, when the level's output offset wraps
C33_OutputRingExclusion ==
  /\ [](/\ lv_opind \in 0 .. 2
        /\ (lv_pc = "process") => (lv_wr = WriteSet(lv_opind))
        /\ (lv_pc = "process" /\ au_pc = "mix") => (lv_opind \notin lv_wr)
        /\ (lv_pc = "process" /\ au_pc = "tail_mix") => (lv_tailop \notin lv_wr))
  /\ [][(cp_state = "PROC" /\ lv_opind' # lv_opind)
          => /\ au_pc \in {"readout", "done_wait"}
             /\ au_pc' = "mix"
             /\ lv_opind' = (lv_opind + 1) % 3
             /\ lv_outoffs' = 0]_vars

C33_Witness == lv_pc = "process" /\ au_pc = "tail_mix" /\ lv_opind = 2

\* C34: no step of Convproc::tailonly posts _trig, runs process () or moves
\* the engine's input offset or the level's _outoffs, _opind, _ptind and
\* _inpoffs; it reads the tail of the output ring only
C34_TailStartsNoCycle ==
  [][TailStep => /\ sem_trig' = sem_trig
                 /\ lv_pc' = lv_pc
                 /\ lv_wr' = lv_wr
                 /\ cp_inpoffs' = cp_inpoffs
                 /\ lv_outoffs' = lv_outoffs
                 /\ lv_opind' = lv_opind
                 /\ lv_ptind' = lv_ptind
                 /\ lv_inpoffs' = lv_inpoffs
                 /\ lv_trigs' = lv_trigs]_vars

C34_Witness == au_pc = "tail_mix" /\ lv_tailop # lv_opind /\ lv_wait = 0 /\ lv_trigs = 1

ChunkLen == 1024    \* the read buffer of the load loop, float ir [8192], scaled

RelStart_abs(offs, i0) == offs

\* Convlevel::impdata_write, line 668: i0 = _offs - i0, the level's start
\* relative to the first sample handed over
RelStart(offs, i0) == offs - i0

\* Convlevel::impdata_write, lines 667-711: the samples for positions
\* i0 .. i1 - 1 go to partition k at j - i0, each written slot given as
\* <<level, partition, position in the partition, sample's position>>
impdata_slots(l, lev, i0, i1) ==
  LET n  == i1 - i0
      r0 == RelStart(lev.offs, i0)
      r1 == r0 + lev.npar * lev.size
  IN IF r0 >= n \/ r1 <= 0 THEN {}
     ELSE UNION {LET a  == r0 + k * lev.size
                     b  == a + lev.size
                     j0 == IF a < 0 THEN 0 ELSE a
                     j1 == IF b > n THEN n ELSE b
                 IN IF a < n /\ b > 0
                      THEN {<<l, k, j - a, i0 + j>> : j \in j0 .. j1 - 1}
                      ELSE {} : k \in 0 .. lev.npar - 1}

\* Convproc::impdata_create, lines 361-364: every level is offered the samples
CreateSlots(plan, i0, i1) ==
  UNION {impdata_slots(l, plan[l], i0, i1) : l \in DOMAIN plan}

\* the read loop of Convolver::reconfigure, lines 301-333: up to 8192 samples
\* are read at pos and handed over for chan_delay + pos ..; the Readable may
\* deliver fewer than asked for
impdata_chunk ==
  /\ ch_pos < ch_in.len
  /\ LET to_read == IF ChunkLen < ch_in.len - ch_pos THEN ChunkLen
                                                      ELSE ch_in.len - ch_pos
     IN \E ns \in {to_read, (to_read + 1) \div 2} :
          LET w == CreateSlots(ch_in.plan, ch_in.delay + ch_pos,
                                  ch_in.delay + ch_pos + ns)
          IN /\ ch_slots' = ch_slots \cup w
             /\ ch_twice' = (ch_twice \/ {x[4] : x \in w} \cap {y[4] : y \in ch_slots} # {})
             /\ ch_pos' = ch_pos + ns
  /\ UNCHANGED <<ch_in, ch_rest, base_vars>>

ChunkLens == {1, 200, 1500, 3000}

InitLoop ==
  /\ InitBase /\ InitReset /\ InitBuffered /\ InitSwaps /\ InitDelay
  /\ ch_in \in {[plan |-> Plan([ninp |-> 1, nout |-> 1, maxsize |-> m,
                                quantum |-> MINPART, minpart |-> MINPART,
                                maxpart |-> 8 * MINPART, density |-> "default"]),
                 len |-> m, delay |-> d] : m \in ChunkLens, d \in {0, 40, 64}}
  /\ ch_pos = 0
  /\ ch_slots = {}
  /\ ch_twice = FALSE

SpecChunks == InitLoop /\ [][impdata_chunk]_vars

\* C35: whatever the chunk boundaries, the slots written by the consecutive
\* impdata_create calls are the slots one call over the whole range writes;
\* no sample is written twice or into two slots, and every sample inside the
\* plan's coverage has its slot
C35_ChunkedEqualsSingleShot ==
  /\ ch_slots = CreateSlots(ch_in.plan, ch_in.delay, ch_in.delay + ch_pos)
  /\ ~ ch_twice
  /\ \A x \in ch_slots : x[4] = ch_in.plan[x[1]].offs + x[2] * ch_in.plan[x[1]].size + x[3]
  /\ {x[4] : x \in ch_slots}
       = {p \in ch_in.delay .. ch_in.delay + ch_pos - 1 :
            \E l \in DOMAIN ch_in.plan :
              ch_in.plan[l].offs <= p
              /\ p < ch_in.plan[l].offs + ch_in.plan[l].npar * ch_in.plan[l].size}
  /\ Cardinality(ch_slots) = Cardinality({x[4] : x \in ch_slots})

C35_Witness ==
  /\ ch_pos = ch_in.len /\ ch_in.len > 2 * ChunkLen /\ ch_in.delay > 0
  /\ \E x \in ch_slots : x[1] = 2

\* the TimeDomainConvolver index run_stereo applies from input inp to output
\* out, lines 548-551: _tdc [0] left to outL, _tdc [1] right to outL,
\* _tdc [2] left to outR, _tdc [3] right to outR
RunIndex(inp, out) == out * 2 + inp

\* C36: after reconfigure, every loaded pair with a delay d below 64 has its
\* time-domain convolver enabled, with zeros below d and the gain-scaled IR
\* samples 0 .. min (64 - d, L) - 1 from d on; every other convolver is
\* disabled with an all-zero table
C36_TdcTableLoaded ==
  (rc_pc = "done" /\ rc_rv = 0) =>
    \A i \in 0 .. 3 :
      IF \E m \in rc_imp : m.inp * 2 + m.out = i /\ m.delay < TdcTaps
        THEN \A m \in rc_imp : (m.inp * 2 + m.out = i) =>
               /\ rc_tab[i].enabled
               /\ \A j \in 0 .. TdcTaps - 1 :
                    Tap(rc_tab[i], j) =
                      IF j >= m.delay /\ j - m.delay < rc_in.len
                        THEN m.gain * Sample(j - m.delay) ELSE 0
        ELSE /\ ~ rc_tab[i].enabled
             /\ \A j \in 0 .. TdcTaps - 1 : Tap(rc_tab[i], j) = 0

\* C39: the index reconfigure configures for a loaded pair, io_i * 2 + io_o,
\* is the index run_stereo applies from that input to that output
C39_TdcIndexConvention ==
  \A m \in rc_imp : m.inp * 2 + m.out = RunIndex(m.inp, m.out)

\* opts_set, lines 815-834: an option that is not the instance's nominal
\* block length, or not an int32 atom, is refused; any other value is stored
\* in block_size as it comes, and handed to the online engine's reconfigure
opts_set ==
  /\ io_inst = "ok"
  /\ \E subject_ok \in BOOLEAN : \E key_ok \in BOOLEAN : \E value_ok \in BOOLEAN :
     \E v \in HostLens :
       IF subject_ok /\ key_ok /\ value_ok
         THEN block_size' = AsUint32(v)
         ELSE UNCHANGED block_size
  /\ UNCHANGED <<host_nominal, host_max, descriptor, io_inst, chn_in, chn_out,
                 io_online, buffered, db_dry, db_wet, dry_coeff, dry_target, output,
                 p_latency, io_cb,
                 facade_vars, level_vars, st_vars, cv_vars, rc_vars, ext_vars>>

NextOpts == instantiate \/ engine_online \/ opts_set

SpecOpts == InitInst /\ [][NextOpts]_vars

\* C38: the block size of an instance lies within [64, 8192] in every
\* reachable state, whatever options the host sets after instantiation
C38_BlockSizeInRange ==
  (io_inst = "ok") => (MinBlock <= block_size /\ block_size <= MaxBlock)

\* C37: the engine a CMD_FREE deletes is one that work_response has put
\* online before (and has since displaced into clv_offline); an engine that
\* was built but never swapped in is not deleted by CMD_FREE
C37_FreeDeletesDisplacedOnly ==
  [][(pc["worker"] = "fr_delete" /\ pc'["worker"] = "fr_null" /\ clv_offline # NULL)
       => clv_offline \in was_online]_vars

MaxDelay == 2      \* largest delay handed to DelayLine::reset
MaxStamps == 6     \* samples handed to DelayLine::run in all

\* DelayLine::reset, lines 52-58, without allocation failure: a zeroed buffer
\* of 1 + delay samples; _written keeps its value
dl_reset ==
  /\ \E d \in 0 .. MaxDelay :
       /\ dl_buf' = [i \in 1 .. d + 1 |-> 0]
       /\ dl_delay' = d
  /\ dl_pos' = 0
  /\ dl_hist' = <<>>
  /\ dl_out' = <<>>
  /\ dl_exp' = <<>>
  /\ UNCHANGED <<dl_written, dl_stamp, dl_rest, base_vars>>

\* DelayLine::clear, lines 42-50: memset (_buf, 0, _delay * sizeof (float))
\* zeroes the first _delay of the 1 + _delay samples
dl_clear ==
  /\ IF ~ dl_written \/ dl_buf = <<>>
       THEN UNCHANGED <<dl_buf, dl_written>>
       ELSE /\ dl_buf' = [i \in DOMAIN dl_buf |-> IF i <= dl_delay THEN 0 ELSE dl_buf[i]]
            /\ dl_written' = FALSE
  /\ dl_hist' = <<>>
  /\ dl_out' = <<>>
  /\ dl_exp' = <<>>
  /\ UNCHANGED <<dl_delay, dl_pos, dl_stamp, dl_rest, base_vars>>

\* the loop of DelayLine::run, lines 64-70, over the samples v + 1 .. v + n:
\* _buf [_pos] = buf [i]; if (++_pos > _delay) _pos = 0; buf [i] = _buf [_pos]
RECURSIVE RunLoop(_, _, _, _, _, _)
RunLoop(buf, pos, hist, out, exp, todo) ==
  IF todo = <<>> THEN [buf |-> buf, pos |-> pos, hist |-> hist, out |-> out, exp |-> exp]
  ELSE LET b1 == [buf EXCEPT ![pos + 1] = Head(todo)]
           p1 == IF pos + 1 > dl_delay THEN 0 ELSE pos + 1
           h1 == Append(hist, Head(todo))
       IN RunLoop(b1, p1, h1, Append(out, b1[p1 + 1]),
                  Append(exp, IF Len(h1) > dl_delay THEN h1[Len(h1) - dl_delay] ELSE 0),
                  Tail(todo))

\* DelayLine::run, lines 60-71, on a buffer of n fresh samples
dl_run ==
  /\ dl_buf # <<>>
  /\ \E n \in 0 .. 2 :
       /\ dl_stamp + n <= MaxStamps
       /\ LET r == RunLoop(dl_buf, dl_pos, dl_hist, <<>>, <<>>,
                           [i \in 1 .. n |-> dl_stamp + i])
          IN /\ dl_buf' = r.buf
             /\ dl_pos' = r.pos
             /\ dl_hist' = r.hist
             /\ dl_out' = r.out
             /\ dl_exp' = r.exp
       /\ dl_written' = (n > 0)
       /\ dl_stamp' = dl_stamp + n
  /\ UNCHANGED <<dl_delay, dl_rest, base_vars>>

NextDelay == dl_reset \/ dl_clear \/ dl_run

\* a DelayLine as its constructor leaves it
InitLine ==
  /\ InitBase
  /\ InitExt

SpecDelay == InitLine /\ [][NextDelay]_vars

\* C40: every sample a run call writes back is the sample taken _delay samples
\* earlier, or zero when that sample lies before the most recent reset or
\* clear; nothing taken before a clear is output after it
C40_ExactDelay == dl_out = dl_exp
====
